---- MODULE Spec2Model ----
(***************************************************************************)
(* OAuth2 connect flows and item aggregation of the HubSpot and Notion     *)
(* adapters (backend/integrations/hubspot.py, backend/integrations/        *)
(* notion.py).                                                             *)
(*                                                                         *)
(* Text is a sequence of code points, written as a tuple with the text in  *)
(* a comment beside it; a byte string is a sequence of numbers 0..255.     *)
(* A Python value (what json.loads returns, what a handler holds) is a     *)
(* tagged record:                                                          *)
(*   [t |-> "null"]  [t |-> "bool", b]  [t |-> "int", n]  [t |-> "str", s] *)
(*   [t |-> "arr", a |-> <<values>>]  [t |-> "obj", m |-> <<<<key, v>>>>]  *)
(* and a raised exception is [t |-> "raise", exc |-> <class name>].        *)
(* A local a function computes once and reads several times is the         *)
(* parameter of an operator that holds the rest of the function.           *)
(***************************************************************************)
EXTENDS Integers, Sequences, FiniteSets, TLC

(* ----------------------------- text ----------------------------------- *)

\* s[i:] of Python, with i counted from 1.
Drop(s, i) == IF i > Len(s) THEN <<>> ELSE SubSeq(s, i, Len(s))

\* s.startswith(p, i) with i counted from 1.
StartsWithAt(s, p, i) ==
  /\ i + Len(p) - 1 <= Len(s)
  /\ \A j \in 1..Len(p) : s[i + j - 1] = p[j]

RECURSIVE Concat(_)
\* "".join(parts)
Concat(parts) ==
  IF parts = <<>> THEN <<>> ELSE Head(parts) \o Concat(Tail(parts))

(* ------------------------- Python values ------------------------------ *)

PyNone == [t |-> "null"]
PyBool(b) == [t |-> "bool", b |-> b]
PyInt(n) == [t |-> "int", n |-> n]
PyStr(s) == [t |-> "str", s |-> s]
PyList(a) == [t |-> "arr", a |-> a]
PyDict(m) == [t |-> "obj", m |-> m]
Raise(exc) == [t |-> "raise", exc |-> exc]
IsRaise(v) == v.t = "raise"

\* bool(v): None, False, 0, "", [] and {} are falsy.
Truthy(v) ==
  CASE v.t = "null" -> FALSE
    [] v.t = "bool" -> v.b
    [] v.t = "int" -> v.n # 0
    [] v.t = "str" -> v.s # <<>>
    [] v.t = "arr" -> v.a # <<>>
    [] v.t = "obj" -> v.m # <<>>
    [] OTHER -> TRUE

\* key in d, for a dict d and a text key.
HasKey(d, key) == \E i \in 1..Len(d.m) : d.m[i][1] = key

\* d[key] of a dict d that has the key.
Lookup(d, key) == d.m[CHOOSE i \in 1..Len(d.m) : d.m[i][1] = key][2]

\* v.get(key, default): AttributeError when v is not a dict.
PyGet(v, key, default) ==
  IF v.t # "obj" THEN Raise("AttributeError")
  ELSE IF HasKey(v, key) THEN Lookup(v, key) ELSE default

\* v[key] with a text key: KeyError on a dict without it, TypeError on a value
\* that is not subscriptable by a str.
PyIndex(v, key) ==
  IF v.t = "obj" THEN (IF HasKey(v, key) THEN Lookup(v, key) ELSE Raise("KeyError"))
  ELSE Raise("TypeError")

\* d[key] = value on a dict: an existing key keeps its place.
DictSet(m, key, value) ==
  IF \E i \in 1..Len(m) : m[i][1] = key
  THEN [i \in 1..Len(m) |-> IF m[i][1] = key THEN <<key, value>> ELSE m[i]]
  ELSE Append(m, <<key, value>>)

RECURSIVE Digits(_)
\* str(n) for n >= 0.
Digits(n) ==
  IF n < 10 THEN <<48 + n>> ELSE Append(Digits(n \div 10), 48 + (n % 10))

\* The text an f-string puts for {v} (str(v)) when v is None, a bool, an int or a
\* str; containers are not formatted by the model.
Format(v) ==
  CASE v.t = "null" -> <<78, 111, 110, 101>>  \* "None"
    [] v.t = "bool" -> IF v.b THEN <<84, 114, 117, 101>>  \* "True"
                       ELSE <<70, 97, 108, 115, 101>>  \* "False"
    [] v.t = "int" -> Digits(v.n)
    [] v.t = "str" -> v.s
    [] OTHER -> <<63>>  \* "?"

(* ----------------------------- base64 --------------------------------- *)

\* The standard base64 alphabet, value 0 first.
B64Alphabet ==
  <<65, 66, 67, 68, 69, 70, 71, 72, 73, 74, 75, 76, 77, 78, 79, 80, 81, 82, 83, 84, 85, 86,
     87, 88, 89, 90, 97, 98, 99, 100, 101, 102, 103, 104, 105, 106, 107, 108, 109, 110,
     111, 112, 113, 114, 115, 116, 117, 118, 119, 120, 121, 122, 48, 49, 50, 51, 52, 53,
     54, 55, 56, 57, 43, 47>>  \* "ABCDEFGHIJKLMNOPQRSTUVWXYZabcdefghijklmnopqrstuvwxyz0123456789+/"

B64Char(v) == B64Alphabet[v + 1]
B64Pad == 61  \* "="

RECURSIVE B64EncodeStd(_)
\* base64.b64encode: three bytes give four characters, a rest of one or two bytes is
\* padded with "=".
B64EncodeStd(bs) ==
  IF Len(bs) = 0 THEN <<>>
  ELSE IF Len(bs) = 1 THEN
    << B64Char(bs[1] \div 4), B64Char((bs[1] % 4) * 16), B64Pad, B64Pad >>
  ELSE IF Len(bs) = 2 THEN
    << B64Char(bs[1] \div 4), B64Char(((bs[1] % 4) * 16) + (bs[2] \div 16)),
       B64Char((bs[2] % 16) * 4), B64Pad >>
  ELSE
    << B64Char(bs[1] \div 4), B64Char(((bs[1] % 4) * 16) + (bs[2] \div 16)),
       B64Char(((bs[2] % 16) * 4) + (bs[3] \div 64)), B64Char(bs[3] % 64) >>
    \o B64EncodeStd(Drop(bs, 4))

\* The translation of "+/" to "-_" that makes the alphabet URL-safe, and back.
ToUrlSafe(c) == IF c = 43 THEN 45 ELSE IF c = 47 THEN 95 ELSE c  \* "+" "-" "/" "_"
FromUrlSafe(c) == IF c = 45 THEN 43 ELSE IF c = 95 THEN 47 ELSE c  \* "-" "+" "_" "/"

\* base64.urlsafe_b64encode(bs)
urlsafe_b64encode(bs) ==
  LET std == B64EncodeStd(bs) IN [i \in 1..Len(std) |-> ToUrlSafe(std[i])]

IsB64Char(c) == \E v \in 1..64 : B64Alphabet[v] = c
B64Value(c) == (CHOOSE v \in 1..64 : B64Alphabet[v] = c) - 1

\* binascii.a2b_base64 in its default, non-strict mode.  The loop skips characters
\* outside the alphabet; quad_pos is the count of data characters read so far modulo
\* 4, and pads counts the "=" read since the last data character.  A "=" read with
\* quad_pos >= 2 and quad_pos + pads >= 4 ends the input; input that ends otherwise
\* with quad_pos # 0 raises binascii.Error.
A2BDataBefore(s, i) == {j \in 1..(i - 1) : IsB64Char(s[j])}
A2BPadsAt(s, i) ==
  Cardinality({j \in 1..i : s[j] = B64Pad /\ \A k \in j..i : ~IsB64Char(s[k])})
A2BStopsAt(s, i) ==
  /\ s[i] = B64Pad
  /\ Cardinality(A2BDataBefore(s, i)) % 4 >= 2
  /\ (Cardinality(A2BDataBefore(s, i)) % 4) + A2BPadsAt(s, i) >= 4

a2b_base64(s) ==
  LET stops == {i \in 1..Len(s) : A2BStopsAt(s, i)}
      end == IF stops = {} THEN Len(s) + 1 ELSE CHOOSE i \in stops : \A j \in stops : i <= j
      data == SelectSeq(SubSeq(s, 1, end - 1), IsB64Char)
      d == [i \in 1..Len(data) |-> B64Value(data[i])]
      n == (Len(d) * 6) \div 8
      byte(j) ==
        LET g == 4 * ((j - 1) \div 3) IN
        CASE (j - 1) % 3 = 0 -> (d[g + 1] * 4) + (d[g + 2] \div 16)
          [] (j - 1) % 3 = 1 -> ((d[g + 2] % 16) * 16) + (d[g + 3] \div 4)
          [] OTHER -> ((d[g + 3] % 4) * 64) + d[g + 4]
  IN IF stops = {} /\ Len(d) % 4 # 0 THEN Raise("binascii.Error")
     ELSE [t |-> "bytes", b |-> [j \in 1..n |-> byte(j)]]

\* base64.urlsafe_b64decode(s) of a str: ValueError when s is not ASCII.
urlsafe_b64decode(s) ==
  IF \E i \in 1..Len(s) : s[i] > 127 THEN Raise("ValueError")
  ELSE a2b_base64([i \in 1..Len(s) |-> FromUrlSafe(s[i])])

\* str.encode() of a text the model writes: ASCII, one byte a character.
Encode(s) == s

\* bytes.decode(): a byte below 128 is its character.  The model holds no multi-byte
\* sequence, so a byte from 128 up is an invalid start byte: UnicodeDecodeError.
Decode(bs) ==
  IF \E i \in 1..Len(bs) : bs[i] > 127 THEN Raise("UnicodeDecodeError")
  ELSE PyStr(bs)

(* ------------------------------ JSON ---------------------------------- *)

\* "0123456789abcdef"
HexDigits == <<48, 49, 50, 51, 52, 53, 54, 55, 56, 57, 97, 98, 99, 100, 101, 102>>

\* The short escapes of json: the escaped character and the letter written for it.
ShortEscapes ==
  << <<34, 34>>, <<92, 92>>, <<8, 98>>, <<12, 102>>,  \* """ "\" "b" "f"
     <<10, 110>>, <<13, 114>>, <<9, 116>> >>  \* "n" "r" "t"

\* json.encoder.py_encode_basestring_ascii for one character.
EscapeChar(c) ==
  IF \E k \in 1..Len(ShortEscapes) : ShortEscapes[k][1] = c
  THEN << 92,  \* "\"
          ShortEscapes[CHOOSE k \in 1..Len(ShortEscapes) : ShortEscapes[k][1] = c][2] >>
  ELSE IF c >= 32 /\ c <= 126 THEN <<c>>
  ELSE << 92, 117, HexDigits[((c \div 4096) % 16) + 1],  \* "\" "u"
          HexDigits[((c \div 256) % 16) + 1], HexDigits[((c \div 16) % 16) + 1],
          HexDigits[(c % 16) + 1] >>

\* The JSON text of a str.
DumpString(s) ==
  <<34>> \o Concat([i \in 1..Len(s) |-> EscapeChar(s[i])]) \o <<34>>  \* """ """

RECURSIVE JoinWith(_, _)
\* sep.join(parts)
JoinWith(parts, sep) ==
  IF Len(parts) = 0 THEN <<>>
  ELSE IF Len(parts) = 1 THEN parts[1]
  ELSE parts[1] \o sep \o JoinWith(Tail(parts), sep)

RECURSIVE json_dumps(_)
\* json.dumps(v) with the default separators ", " and ": ".
json_dumps(v) ==
  CASE v.t = "null" -> <<110, 117, 108, 108>>  \* "null"
    [] v.t = "bool" -> IF v.b THEN <<116, 114, 117, 101>>  \* "true"
                       ELSE <<102, 97, 108, 115, 101>>  \* "false"
    [] v.t = "int" -> IF v.n < 0 THEN <<45>> \o Digits(-v.n) ELSE Digits(v.n)  \* "-"
    [] v.t = "str" -> DumpString(v.s)
    [] v.t = "arr" ->
         <<91>>  \* "["
         \o JoinWith([i \in 1..Len(v.a) |-> json_dumps(v.a[i])], <<44, 32>>)  \* ", "
         \o <<93>>  \* "]"
    [] OTHER ->
         <<123>>  \* "{"
         \o JoinWith([i \in 1..Len(v.m) |->
                        DumpString(v.m[i][1]) \o <<58, 32>> \o json_dumps(v.m[i][2])],  \* ": "
                     <<44, 32>>)  \* ", "
         \o <<125>>  \* "}"

\* What a step of the JSON scanner gives: the value read and the index after it, or
\* a failure.
Parsed(v, i) == [ok |-> TRUE, v |-> v, i |-> i]
NoParse == [ok |-> FALSE, v |-> PyNone, i |-> 0]

IsWs(c) == c \in {32, 9, 10, 13}
IsDigit(c) == c >= 48 /\ c <= 57
HexValue(c) ==
  IF IsDigit(c) THEN c - 48
  ELSE IF c >= 97 /\ c <= 102 THEN c - 87
  ELSE IF c >= 65 /\ c <= 70 THEN c - 55
  ELSE -1

RECURSIVE SkipWs(_, _)
\* The index of the first character at or after i that is not JSON whitespace.
SkipWs(s, i) == IF i <= Len(s) /\ IsWs(s[i]) THEN SkipWs(s, i + 1) ELSE i

RECURSIVE ScanString(_, _, _)
\* json.decoder.py_scanstring (strict): i is the index after the opening quote.
ScanString(s, i, acc) ==
  IF i > Len(s) THEN NoParse
  ELSE IF s[i] = 34 THEN Parsed(acc, i + 1)  \* """
  ELSE IF s[i] < 32 THEN NoParse
  ELSE IF s[i] # 92 THEN ScanString(s, i + 1, Append(acc, s[i]))  \* "\"
  ELSE IF i + 1 > Len(s) THEN NoParse
  ELSE IF s[i + 1] = 117 THEN  \* "u"
    IF i + 5 <= Len(s) /\ \A k \in 2..5 : HexValue(s[i + k]) >= 0
    THEN ScanString(s, i + 6,
           Append(acc, (HexValue(s[i + 2]) * 4096) + (HexValue(s[i + 3]) * 256)
                       + (HexValue(s[i + 4]) * 16) + HexValue(s[i + 5])))
    ELSE NoParse
  ELSE IF s[i + 1] = 47 THEN ScanString(s, i + 2, Append(acc, s[i + 1]))  \* "/"
  ELSE IF \E k \in 1..Len(ShortEscapes) : ShortEscapes[k][2] = s[i + 1]
  THEN ScanString(s, i + 2,
         Append(acc, ShortEscapes[CHOOSE k \in 1..Len(ShortEscapes) :
                                    ShortEscapes[k][2] = s[i + 1]][1]))
  ELSE NoParse

RECURSIVE ScanDigits(_, _, _)
\* The digits from index i on, read as a number, with the index after them.
ScanDigits(s, i, n) ==
  IF i <= Len(s) /\ IsDigit(s[i]) THEN ScanDigits(s, i + 1, (n * 10) + (s[i] - 48))
  ELSE Parsed(PyInt(n), i)

\* json.scanner NUMBER_RE for an integer: -?(0|[1-9][0-9]*).  The model's texts hold
\* no fraction and no exponent; one is no parse here.
ScanNumber(s, i) ==
  LET neg == s[i] = 45  \* "-"
      j == IF neg THEN i + 1 ELSE i
      r == IF j <= Len(s) /\ s[j] = 48 THEN Parsed(PyInt(0), j + 1)
           ELSE IF j <= Len(s) /\ IsDigit(s[j]) THEN ScanDigits(s, j, 0)
           ELSE NoParse
  IN IF ~r.ok THEN NoParse
     ELSE IF r.i <= Len(s) /\ s[r.i] \in {46, 101, 69} THEN NoParse  \* "." "e" "E"
     ELSE IF neg THEN Parsed(PyInt(-r.v.n), r.i) ELSE r

RECURSIVE ScanValue(_, _)
RECURSIVE ScanArray(_, _, _)
RECURSIVE ScanObject(_, _, _)

\* json.scanner.py_make_scanner's _scan_once at index i.
ScanValue(s, i) ==
  IF i > Len(s) THEN NoParse
  ELSE IF s[i] = 34 THEN  \* """
    LET r == ScanString(s, i + 1, <<>>) IN IF r.ok THEN Parsed(PyStr(r.v), r.i) ELSE NoParse
  ELSE IF s[i] = 123 THEN  \* "{"
    LET j == SkipWs(s, i + 1) IN
    IF j <= Len(s) /\ s[j] = 125 THEN Parsed(PyDict(<<>>), j + 1)  \* "}"
    ELSE ScanObject(s, j, <<>>)
  ELSE IF s[i] = 91 THEN  \* "["
    LET j == SkipWs(s, i + 1) IN
    IF j <= Len(s) /\ s[j] = 93 THEN Parsed(PyList(<<>>), j + 1)  \* "]"
    ELSE ScanArray(s, j, <<>>)
  ELSE IF StartsWithAt(s, <<110, 117, 108, 108>>, i) THEN Parsed(PyNone, i + 4)  \* "null"
  ELSE IF StartsWithAt(s, <<116, 114, 117, 101>>, i) THEN Parsed(PyBool(TRUE), i + 4)  \* "true"
  ELSE IF StartsWithAt(s, <<102, 97, 108, 115, 101>>, i)  \* "false"
  THEN Parsed(PyBool(FALSE), i + 5)
  ELSE IF s[i] = 45 \/ IsDigit(s[i]) THEN ScanNumber(s, i)  \* "-"
  ELSE NoParse

\* json.decoder.JSONArray: the items from index i on, after "[" and whitespace.
ScanArray(s, i, acc) ==
  LET r == ScanValue(s, i) IN
  IF ~r.ok THEN NoParse
  ELSE
    LET j == SkipWs(s, r.i) IN
    IF j > Len(s) THEN NoParse
    ELSE IF s[j] = 93 THEN Parsed(PyList(Append(acc, r.v)), j + 1)  \* "]"
    ELSE IF s[j] = 44 THEN ScanArray(s, SkipWs(s, j + 1), Append(acc, r.v))  \* ","
    ELSE NoParse

\* json.decoder.JSONObject: the members from index i on, after "{" and whitespace; a
\* repeated key keeps its first place and takes the last value.
ScanObject(s, i, acc) ==
  IF i > Len(s) \/ s[i] # 34 THEN NoParse  \* """
  ELSE
    LET k == ScanString(s, i + 1, <<>>) IN
    IF ~k.ok THEN NoParse
    ELSE
      LET c == SkipWs(s, k.i) IN
      IF c > Len(s) \/ s[c] # 58 THEN NoParse  \* ":"
      ELSE
        LET r == ScanValue(s, SkipWs(s, c + 1)) IN
        IF ~r.ok THEN NoParse
        ELSE
          LET j == SkipWs(s, r.i)
              m == DictSet(acc, k.v, r.v)
          IN IF j > Len(s) THEN NoParse
             ELSE IF s[j] = 125 THEN Parsed(PyDict(m), j + 1)  \* "}"
             ELSE IF s[j] = 44 THEN ScanObject(s, SkipWs(s, j + 1), m)  \* ","
             ELSE NoParse

\* json.loads(s) of a str: the one value of the text, whitespace around it allowed;
\* anything else raises JSONDecodeError.
json_loads(s) ==
  LET r == ScanValue(s, SkipWs(s, 1)) IN
  IF r.ok /\ SkipWs(s, r.i) > Len(s) THEN r.v ELSE Raise("JSONDecodeError")

(* ------------------------- bounds and inputs -------------------------- *)

\* How many values secrets.token_urlsafe can return in the model.
MaxNonce == 2

\* secrets.token_urlsafe(32): an unguessable URL-safe text; the model draws it from
\* the values n1, n2, ...
Nonces == {<<110>> \o Digits(i) : i \in 1..MaxNonce}  \* "n"

\* The (org_id, user_id) pairs callers pass: opaque texts, nothing validates them.
\* The first two differ and are built from the same characters around ":"; the third
\* holds the characters JSON escapes.
Pairs ==
  { <<<<97>>, <<98, 58, 99>>>>,  \* "a" "b:c"
    <<<<97, 58, 98>>, <<99>>>>,  \* "a:b" "c"
    <<<<97>>, <<34, 92>>>> }  \* "a" ""\"

\* The environment's values CLIENT_ID and REDIRECT_URI of either adapter.
CLIENT_ID == <<99, 105, 100>>  \* "cid"
REDIRECT_URI == <<104, 116, 116, 112, 58, 47, 47, 104, 47, 99, 98>>  \* "http://h/cb"

HUBSPOT_SCOPE ==
  <<99, 114, 109, 46, 111, 98, 106, 101, 99, 116, 115, 46, 99, 111, 110, 116, 97, 99, 116,
     115, 46, 114, 101, 97, 100, 32, 99, 114, 109, 46, 111, 98, 106, 101, 99, 116, 115, 46,
     99, 111, 109, 112, 97, 110, 105, 101, 115, 46, 114, 101, 97, 100, 32, 99, 114, 109,
     46, 111, 98, 106, 101, 99, 116, 115, 46, 100, 101, 97, 108, 115, 46, 114, 101, 97,
     \* "crm.objects.contacts.read crm.objects.companies.read crm.objects.deals.read oauth"
     100, 32, 111, 97, 117, 116, 104>>

K_state == <<115, 116, 97, 116, 101>>  \* "state"
K_user_id == <<117, 115, 101, 114, 95, 105, 100>>  \* "user_id"
K_org_id == <<111, 114, 103, 95, 105, 100>>  \* "org_id"
K_access_token == <<97, 99, 99, 101, 115, 115, 95, 116, 111, 107, 101, 110>>  \* "access_token"

(* ------------------------------ store --------------------------------- *)

VARIABLES
  provider,   \* the adapter module the behaviour runs: each has its own redis_client
  store,      \* redis_client.store: a dict from key text to value text
  asked_ttl,  \* history: for each key, when the expire passed with its value runs out
  now,        \* seconds since the start
  last,       \* the last call made: its inputs, how it ended, the requests it sent
  attempts,   \* history: what became of each state authorize issued
  calls       \* the oauth2callback_notion coroutines that run side by side

vars == <<provider, store, asked_ttl, now, last, attempts, calls>>

\* A step of an operation that is no part of a followed flow.
NoFlow == UNCHANGED <<attempts, calls>>

\* d with d[key] = value.
DictPut(d, key, value) ==
  [k \in DOMAIN d \cup {key} |-> IF k = key THEN value ELSE d[k]]

\* d without key.
DictDel(d, key) == [k \in DOMAIN d \ {key} |-> d[k]]

\* A set that keeps no other entry.
add_key_value_redis_alone(st, key, value, expire) == [k \in {key} |-> value]

\* MockRedisClient.add_key_value_redis: the store after it.  expire is not used.
add_key_value_redis(st, key, value, expire) == DictPut(st, key, value)

\* A get that finds nothing.
get_value_redis_absent(st, key) == PyNone

\* MockRedisClient.get_value_redis: None for a key the store does not hold.
get_value_redis(st, key) == IF key \in DOMAIN st THEN PyStr(st[key]) ELSE PyNone

\* A delete that removes nothing.
delete_key_redis_keeping(st, key) == st

\* MockRedisClient.delete_key_redis: the store after it.
delete_key_redis(st, key) == IF key \in DOMAIN st THEN DictDel(st, key) ELSE st

\* The expire a caller passes; NoExpire is expire=None.
NoExpire == [t |-> "null"]

\* asked_ttl after a set of key with the given expire at the present time.
AskedAfterSet(key, expire) ==
  IF expire.t = "null" THEN DictDel(asked_ttl, key)
  ELSE DictPut(asked_ttl, key, now + expire.n)

(* ------------------------------- keys ---------------------------------- *)

HubspotStatePrefix ==
  <<104, 117, 98, 115, 112, 111, 116, 95, 115, 116, 97, 116, 101, 58>>  \* "hubspot_state:"
HubspotTokensPrefix ==
  <<104, 117, 98, 115, 112, 111, 116, 95, 116, 111, 107, 101, 110, 115, 58>>  \* "hubspot_tokens:"
NotionStatePrefix ==
  <<110, 111, 116, 105, 111, 110, 95, 115, 116, 97, 116, 101, 58>>  \* "notion_state:"
NotionTokensPrefix ==
  <<110, 111, 116, 105, 111, 110, 95, 116, 111, 107, 101, 110, 115, 58>>  \* "notion_tokens:"

\* f"{prefix}{org_id}:{user_id}" for the values org_id and user_id.
NamespacedKey(prefix, org_id, user_id) ==
  prefix \o Format(org_id) \o <<58>> \o Format(user_id)  \* ":"

StatePrefix(p) == IF p = "hubspot" THEN HubspotStatePrefix ELSE NotionStatePrefix
TokensPrefix(p) == IF p = "hubspot" THEN HubspotTokensPrefix ELSE NotionTokensPrefix

\* The keys of the store that hold token records, and those that hold states.
TokenKeys(st) == {k \in DOMAIN st : StartsWithAt(k, TokensPrefix(provider), 1)}
StateKeys(st) == {k \in DOMAIN st : StartsWithAt(k, StatePrefix(provider), 1)}

(* --------------------------- authorization ---------------------------- *)

\* expire=600 of the state entry.
StateExpire == 600

\* The state_data dict of authorize_hubspot and encode_state.
StateData(token, user_id, org_id) ==
  PyDict(<< <<K_state, PyStr(token)>>, <<K_user_id, PyStr(user_id)>>,
            <<K_org_id, PyStr(org_id)>> >>)

\* encode_state with user_id and org_id put in each other's place.
encode_state_swapped(user_id, org_id, token) ==
  urlsafe_b64encode(Encode(json_dumps(StateData(token, org_id, user_id))))

\* base64.urlsafe_b64encode(json.dumps(state_data).encode()).decode() for the token
\* secrets.token_urlsafe returned.
encode_state(user_id, org_id, token) ==
  urlsafe_b64encode(Encode(json_dumps(StateData(token, user_id, org_id))))

\* encode_state over the model's inputs, as a table (@@ makes TLC compute it once).
EncodedState ==
  [x \in Pairs \X Nonces |-> encode_state(x[1][2], x[1][1], x[2])] @@ <<>>

HubspotAuthorizeUrl ==
  <<104, 116, 116, 112, 115, 58, 47, 47, 97, 112, 112, 46, 104, 117, 98, 115, 112, 111,
     116, 46, 99, 111, 109, 47, 111, 97, 117, 116, 104, 47, 97, 117, 116, 104, 111, 114,
     105, 122, 101>>  \* "https://app.hubspot.com/oauth/authorize"
NotionAuthorizeUrl ==
  <<104, 116, 116, 112, 115, 58, 47, 47, 97, 112, 105, 46, 110, 111, 116, 105, 111, 110,
     46, 99, 111, 109, 47, 118, 49, 47, 111, 97, 117, 116, 104, 47, 97, 117, 116, 104, 111,
     114, 105, 122, 101>>  \* "https://api.notion.com/v1/oauth/authorize"

\* The auth_url f-string of authorize_hubspot.
HubspotAuthUrl(encoded_state) ==
  \* "?client_id="
  Concat(<< HubspotAuthorizeUrl, <<63, 99, 108, 105, 101, 110, 116, 95, 105, 100, 61>>, CLIENT_ID,
            \* "&redirect_uri="
            <<38, 114, 101, 100, 105, 114, 101, 99, 116, 95, 117, 114, 105, 61>>,
            REDIRECT_URI, <<38, 115, 99, 111, 112, 101, 61>>, HUBSPOT_SCOPE,  \* "&scope="
            <<38, 115, 116, 97, 116, 101, 61>>, encoded_state >>)  \* "&state="

\* The auth_url f-string of authorize_notion.
NotionAuthUrl(encoded_state) ==
  \* "?client_id="
  Concat(<< NotionAuthorizeUrl, <<63, 99, 108, 105, 101, 110, 116, 95, 105, 100, 61>>, CLIENT_ID,
            <<38, 114, 101, 115, 112, 111, 110, 115, 101, 95, 116, 121, 112, 101, 61, 99,
               111, 100, 101>>,  \* "&response_type=code"
            <<38, 111, 119, 110, 101, 114, 61, 117, 115, 101, 114>>,  \* "&owner=user"
            \* "&redirect_uri="
            <<38, 114, 101, 100, 105, 114, 101, 99, 116, 95, 117, 114, 105, 61>>,
            REDIRECT_URI, <<38, 115, 116, 97, 116, 101, 61>>, encoded_state >>)  \* "&state="

\* The two f-strings over the model's inputs, as tables.
HubspotAuthUrls == [x \in Pairs \X Nonces |-> HubspotAuthUrl(EncodedState[x])] @@ <<>>
NotionAuthUrls == [x \in Pairs \X Nonces |-> NotionAuthUrl(EncodedState[x])] @@ <<>>

\* How a call ends: it returns, it raises HTTPException (the framework answers with
\* that status), or it raises another exception nothing handles (a 500).
Returned == [kind |-> "return"]
HTTPException(status_code, detail) ==
  [kind |-> "HTTPException", status |-> status_code, detail |-> detail]
Unhandled(exc) == [kind |-> "raise", exc |-> exc]

\* authorize_hubspot(user_id, org_id), with the token secrets.token_urlsafe returns.
authorize_hubspot(user_id, org_id, token) ==
  LET encoded_state == EncodedState[<< <<org_id, user_id>>, token >>]
      key == NamespacedKey(HubspotStatePrefix, PyStr(org_id), PyStr(user_id))
  IN /\ provider = "hubspot"
     /\ store' = add_key_value_redis(store, key, encoded_state, PyInt(StateExpire))
     /\ asked_ttl' = AskedAfterSet(key, PyInt(StateExpire))
     /\ last' = [op |-> "authorize", user_id |-> user_id, org_id |-> org_id,
                 outcome |-> Returned, result |-> HubspotAuthUrls[<< <<org_id, user_id>>, token >>],
                 requests |-> <<>>]
     /\ UNCHANGED <<provider, now>>

\* authorize_notion(user_id, org_id), with the token secrets.token_urlsafe returns.
authorize_notion(user_id, org_id, token) ==
  LET encoded_state == EncodedState[<< <<org_id, user_id>>, token >>]
      key == NamespacedKey(NotionStatePrefix, PyStr(org_id), PyStr(user_id))
  IN /\ provider = "notion"
     /\ store' = add_key_value_redis(store, key, encoded_state, PyInt(StateExpire))
     /\ asked_ttl' = AskedAfterSet(key, PyInt(StateExpire))
     /\ last' = [op |-> "authorize", user_id |-> user_id, org_id |-> org_id,
                 outcome |-> Returned, result |-> NotionAuthUrls[<< <<org_id, user_id>>, token >>],
                 requests |-> <<>>]
     /\ UNCHANGED <<provider, now>>

(* ------------------------------ callback ------------------------------ *)

\* json.loads(base64.urlsafe_b64decode(encoded_state).decode()): the value, or the
\* exception the try block catches.
decode_state(encoded_state) ==
  LET raw == urlsafe_b64decode(encoded_state) IN
  IF IsRaise(raw) THEN raw
  ELSE LET txt == Decode(raw.b) IN IF IsRaise(txt) THEN txt ELSE json_loads(txt.s)

\* A token no authorize call returned.
ForgedNonce == <<122, 122>>  \* "zz"

\* The state texts a callback request carries in the model: the issued ones, a
\* well-formed one that was never issued, and texts that are no state: one that is not base64,
\* one that decodes to no JSON, and the base64 of the JSON texts [1] and {}.
StateParams ==
  {EncodedState[x] : x \in Pairs \X Nonces}
  \cup {encode_state(<<98, 58, 99>>, <<97>>, ForgedNonce)}  \* "b:c" "a"
  \cup { <<65>>, <<33>>, <<87, 122, 70, 100>>,  \* "A" "!" "WzFd"
         <<101, 51, 48, 61>> }  \* "e30="

\* decode_state over the model's inputs, as a table (@@ makes TLC compute it once).
DecodedState == [s \in StateParams |-> decode_state(s)] @@ <<>>

\* The query parameters of a callback request: None when absent.
ErrorParams == {PyNone, PyStr(<<100, 101, 110, 105, 101, 100>>)}  \* "denied"
CodeParams == {PyNone, PyStr(<<99>>)}  \* "c"
QueryStates == {PyNone} \cup {PyStr(s) : s \in StateParams}

\* What the provider's token endpoint stores for a code: token_info.
TokenPayloads ==
  { PyDict(<< <<K_access_token, PyStr(<<116, 49>>)>> >>),  \* "t1"
    PyDict(<< <<K_access_token, PyStr(<<116, 50>>)>> >>) }  \* "t2"

\* What an HTTP request comes back with: the client raises (a network error), or a
\* response with a status and a decoded JSON body.
NetworkError == [kind |-> "raise", status |-> 0, json |-> PyNone]
HttpResponse(status_code, body) == [kind |-> "response", status |-> status_code, json |-> body]
NoResponse == [kind |-> "none", status |-> 0, json |-> PyNone]

TokenResponses ==
  {NetworkError, HttpResponse(400, PyDict(<<>>))}
  \cup {HttpResponse(200, t) : t \in TokenPayloads}

\* json.dumps(token_info) over the model's payloads, as a table.
DumpedTokens == [t \in TokenPayloads |-> json_dumps(t)] @@ <<>>

\* The POST to the provider's token endpoint.
TokenRequest(code) == [to |-> "token", code |-> code]

MissingCodeOrState ==
  <<77, 105, 115, 115, 105, 110, 103, 32, 99, 111, 100, 101, 32, 111, 114, 32, 115, 116,
     97, 116, 101>>  \* "Missing code or state"
\* "Invalid state"
InvalidStateDetail == <<73, 110, 118, 97, 108, 105, 100, 32, 115, 116, 97, 116, 101>>
StateDoesNotMatch ==
  <<83, 116, 97, 116, 101, 32, 100, 111, 101, 115, 32, 110, 111, 116, 32, 109, 97, 116, 99,
     104>>  \* "State does not match"
FailedToExchange ==
  <<70, 97, 105, 108, 101, 100, 32, 116, 111, 32, 101, 120, 99, 104, 97, 110, 103, 101, 32,
     \* "Failed to exchange code for tokens"
     99, 111, 100, 101, 32, 102, 111, 114, 32, 116, 111, 107, 101, 110, 115>>
NoCredentialsFound ==
  <<78, 111, 32, 99, 114, 101, 100, 101, 110, 116, 105, 97, 108, 115, 32, 102, 111, 117,
     110, 100>>  \* "No credentials found"

\* A query parameter the handler ended without reading.
Unread == [t |-> "unread"]

\* The record of a callback in last: the query parameters it read, the token
\* endpoint's answer when it asked, how it ended and the requests it sent.
CallbackRecord(error, code, encoded_state, response, outcome, requests) ==
  [op |-> "callback", error |-> error, code |-> code, state |-> encoded_state,
   response |-> response, outcome |-> outcome, result |-> PyNone, requests |-> requests]

\* A callback that ends dropping the pending states.
CallbackFails_forgetting(error, code, encoded_state, response, outcome, requests) ==
  /\ last' = CallbackRecord(error, code, encoded_state, response, outcome, requests)
  /\ store' = [k \in DOMAIN store \ StateKeys(store) |-> store[k]]
  /\ UNCHANGED <<provider, asked_ttl, now>>

\* A callback that ends without touching the store.
CallbackFails(error, code, encoded_state, response, outcome, requests) ==
  /\ last' = CallbackRecord(error, code, encoded_state, response, outcome, requests)
  /\ UNCHANGED <<provider, store, asked_ttl, now>>

\* The token write of oauth2callback_hubspot, from the f-string of the key on.
HubspotStoreTokens(error, code, encoded_state, response, state_data) ==
  LET org_id == PyIndex(state_data, K_org_id)
      user_id == PyIndex(state_data, K_user_id)
      requests == <<TokenRequest(code.s)>>
  IN IF IsRaise(org_id)
     THEN CallbackFails(error, code, encoded_state, response, Unhandled(org_id.exc), requests)
     ELSE IF IsRaise(user_id)
     THEN CallbackFails(error, code, encoded_state, response, Unhandled(user_id.exc), requests)
     ELSE
       LET key == NamespacedKey(HubspotTokensPrefix, org_id, user_id) IN
       /\ store' = add_key_value_redis(store, key, DumpedTokens[response.json], NoExpire)
       /\ asked_ttl' = AskedAfterSet(key, NoExpire)
       /\ last' = CallbackRecord(error, code, encoded_state, response, Returned, requests)
       /\ UNCHANGED <<provider, now>>

\* oauth2callback_hubspot(request): the handler reads the query parameter error, and
\* code and state only when there is no error.
oauth2callback_hubspot(error) ==
  /\ provider = "hubspot"
  /\ IF Truthy(error)
     THEN CallbackFails(error, Unread, Unread, NoResponse,
                        HTTPException(400, error.s), <<>>)
     ELSE
       \E code \in CodeParams, encoded_state \in QueryStates :
         IF ~Truthy(code) \/ ~Truthy(encoded_state)
         THEN CallbackFails(error, code, encoded_state, NoResponse,
                            HTTPException(400, MissingCodeOrState), <<>>)
         ELSE
           LET state_data == DecodedState[encoded_state.s] IN
           IF IsRaise(state_data)
           THEN CallbackFails(error, code, encoded_state, NoResponse,
                              HTTPException(400, InvalidStateDetail), <<>>)
           ELSE
             \E response \in TokenResponses :
               IF response.kind = "raise"
               THEN CallbackFails(error, code, encoded_state, response,
                                  Unhandled("httpx.HTTPError"), <<TokenRequest(code.s)>>)
               ELSE IF response.status # 200
               THEN CallbackFails(error, code, encoded_state, response,
                                  HTTPException(400, FailedToExchange), <<TokenRequest(code.s)>>)
               ELSE HubspotStoreTokens(error, code, encoded_state, response, state_data)

\* A state check that lets every state through.
StateMismatch_unchecked(stored_state, encoded_state) == FALSE

\* if not stored_state or stored_state != encoded_state
StateMismatch(stored_state, encoded_state) ==
  ~Truthy(stored_state) \/ stored_state # encoded_state

\* oauth2callback_notion from the state check on, for a decoded state.
NotionValidateAndExchange(error, code, encoded_state, state_data) ==
  LET user_id == PyGet(state_data, K_user_id, PyNone)
      org_id == PyGet(state_data, K_org_id, PyNone)
  IN IF IsRaise(user_id)
     THEN CallbackFails(error, code, encoded_state, NoResponse, Unhandled(user_id.exc), <<>>)
     ELSE
       LET state_key == NamespacedKey(NotionStatePrefix, org_id, user_id)
           tokens_key == NamespacedKey(NotionTokensPrefix, org_id, user_id)
           stored_state == get_value_redis(store, state_key)
           requests == <<TokenRequest(code.s)>>
       IN IF StateMismatch(stored_state, encoded_state)
          THEN CallbackFails(error, code, encoded_state, NoResponse,
                             HTTPException(400, StateDoesNotMatch), <<>>)
          ELSE
            \E response \in TokenResponses :
              IF response.kind = "raise"
              THEN CallbackFails(error, code, encoded_state, response,
                                 Unhandled("httpx.HTTPError"), requests)
              ELSE IF response.status # 200
              THEN CallbackFails(error, code, encoded_state, response,
                                 HTTPException(400, FailedToExchange), requests)
              ELSE
                /\ store' = delete_key_redis(
                              add_key_value_redis(store, tokens_key,
                                                  DumpedTokens[response.json], NoExpire),
                              state_key)
                /\ asked_ttl' = DictDel(asked_ttl, state_key)
                /\ last' = CallbackRecord(error, code, encoded_state, response,
                                          Returned, requests)
                /\ UNCHANGED <<provider, now>>

\* oauth2callback_notion(request): the handler reads the query parameter error, and
\* code and state only when there is no error.
oauth2callback_notion(error) ==
  /\ provider = "notion"
  /\ IF Truthy(error)
     THEN CallbackFails(error, Unread, Unread, NoResponse,
                        HTTPException(400, error.s), <<>>)
     ELSE
       \E code \in CodeParams, encoded_state \in QueryStates :
         IF ~Truthy(code) \/ ~Truthy(encoded_state)
         THEN CallbackFails(error, code, encoded_state, NoResponse,
                            HTTPException(400, MissingCodeOrState), <<>>)
         ELSE
           LET state_data == DecodedState[encoded_state.s] IN
           IF IsRaise(state_data)
           THEN CallbackFails(error, code, encoded_state, NoResponse,
                              HTTPException(400, InvalidStateDetail), <<>>)
           ELSE NotionValidateAndExchange(error, code, encoded_state, state_data)

(* ----------------------------- credentials ---------------------------- *)

\* The record of a get_<provider>_credentials call in last.
CredentialsRecord(user_id, org_id, outcome, result) ==
  [op |-> "get_credentials", user_id |-> user_id, org_id |-> org_id,
   outcome |-> outcome, result |-> result, requests |-> <<>>]

\* get_hubspot_credentials(user_id, org_id)
get_hubspot_credentials(user_id, org_id) ==
  LET credentials_str ==
        get_value_redis(store, NamespacedKey(HubspotTokensPrefix, PyStr(org_id),
                                             PyStr(user_id)))
  IN /\ provider = "hubspot"
     /\ IF ~Truthy(credentials_str)
        THEN last' = CredentialsRecord(user_id, org_id,
                                       HTTPException(401, NoCredentialsFound), PyNone)
        ELSE LET credentials == json_loads(credentials_str.s) IN
             last' = CredentialsRecord(user_id, org_id,
                                       IF IsRaise(credentials) THEN Unhandled(credentials.exc)
                                       ELSE Returned,
                                       IF IsRaise(credentials) THEN PyNone ELSE credentials)
     /\ UNCHANGED <<provider, store, asked_ttl, now>>

\* get_notion_credentials(user_id, org_id)
get_notion_credentials(user_id, org_id) ==
  LET credentials ==
        get_value_redis(store, NamespacedKey(NotionTokensPrefix, PyStr(org_id),
                                             PyStr(user_id)))
  IN /\ provider = "notion"
     /\ IF ~Truthy(credentials)
        THEN last' = CredentialsRecord(user_id, org_id, Returned, PyNone)
        ELSE LET loaded == json_loads(credentials.s) IN
             last' = CredentialsRecord(user_id, org_id,
                                       IF IsRaise(loaded) THEN Unhandled(loaded.exc)
                                       ELSE Returned,
                                       IF IsRaise(loaded) THEN PyNone ELSE loaded)
     /\ UNCHANGED <<provider, store, asked_ttl, now>>

(* ------------------------------ items --------------------------------- *)

K_id == <<105, 100>>  \* "id"
K_properties == <<112, 114, 111, 112, 101, 114, 116, 105, 101, 115>>  \* "properties"
K_firstname == <<102, 105, 114, 115, 116, 110, 97, 109, 101>>  \* "firstname"
K_lastname == <<108, 97, 115, 116, 110, 97, 109, 101>>  \* "lastname"
K_email == <<101, 109, 97, 105, 108>>  \* "email"
K_name == <<110, 97, 109, 101>>  \* "name"
K_dealname == <<100, 101, 97, 108, 110, 97, 109, 101>>  \* "dealname"
K_createdate == <<99, 114, 101, 97, 116, 101, 100, 97, 116, 101>>  \* "createdate"
K_hs_lastmodifieddate ==
  <<104, 115, 95, 108, 97, 115, 116, 109, 111, 100, 105, 102, 105, 101, 100, 100, 97, 116,
     101>>  \* "hs_lastmodifieddate"
K_results == <<114, 101, 115, 117, 108, 116, 115>>  \* "results"
K_object == <<111, 98, 106, 101, 99, 116>>  \* "object"
K_type == <<116, 121, 112, 101>>  \* "type"
K_title == <<116, 105, 116, 108, 101>>  \* "title"
K_plain_text == <<112, 108, 97, 105, 110, 95, 116, 101, 120, 116>>  \* "plain_text"
K_created_time == <<99, 114, 101, 97, 116, 101, 100, 95, 116, 105, 109, 101>>  \* "created_time"
K_last_edited_time ==
  \* "last_edited_time"
  <<108, 97, 115, 116, 95, 101, 100, 105, 116, 101, 100, 95, 116, 105, 109, 101>>

\* Python's whitespace characters among the ASCII ones.
IsSpace(c) == c = 32 \/ (c >= 9 /\ c <= 13)

\* str.strip()
Strip(s) ==
  LET keep == {i \in 1..Len(s) : ~IsSpace(s[i])} IN
  IF keep = {} THEN <<>>
  ELSE SubSeq(s, CHOOSE i \in keep : \A j \in keep : i <= j,
                 CHOOSE i \in keep : \A j \in keep : i >= j)

\* str.capitalize() of an ASCII text.
Capitalize(s) ==
  [i \in 1..Len(s) |->
     IF i = 1 THEN (IF s[i] >= 97 /\ s[i] <= 122 THEN s[i] - 32 ELSE s[i])
     ELSE (IF s[i] >= 65 /\ s[i] <= 90 THEN s[i] + 32 ELSE s[i])]

\* A whole number as its sign and its decimal digits without leading zeros: the
\* timestamps of the providers do not fit TLC's integers.
BigInt(neg, digits) == [t |-> "bigint", neg |-> neg, digits |-> digits]

\* The digits without their leading zeros ("0" for zero).
NoLeadingZeros(ds) ==
  LET nz == {i \in 1..Len(ds) : ds[i] # 48} IN
  IF nz = {} THEN <<48>> ELSE SubSeq(ds, CHOOSE i \in nz : \A j \in nz : i <= j, Len(ds))

\* int() of decimal digits ds with a sign: ValueError unless ds is one digit or more.
IntOfDigits(neg, ds) ==
  IF Len(ds) > 0 /\ \A i \in 1..Len(ds) : IsDigit(ds[i])
  THEN BigInt(neg /\ NoLeadingZeros(ds) # <<48>>, NoLeadingZeros(ds))
  ELSE Raise("ValueError")

\* int() of a stripped text s: an optional sign, then the digits.
IntOfStripped(s) ==
  IF Len(s) > 0 /\ s[1] \in {43, 45}  \* "+" "-"
  THEN IntOfDigits(s[1] = 45, Drop(s, 2))
  ELSE IntOfDigits(FALSE, s)

\* int(v): a str holds an optional sign and decimal digits, whitespace around them
\* allowed, else ValueError; None, a list and a dict raise TypeError.
PyIntOf(v) ==
  CASE v.t = "int" -> BigInt(v.n < 0, Digits(IF v.n < 0 THEN -v.n ELSE v.n))
    [] v.t = "bool" -> BigInt(FALSE, IF v.b THEN <<49>> ELSE <<48>>)
    [] v.t = "str" -> IntOfStripped(Strip(v.s))
    [] OTHER -> Raise("TypeError")

\* a < b for two digit texts without leading zeros.
DigitsLess(a, b) ==
  \/ Len(a) < Len(b)
  \/ /\ Len(a) = Len(b)
     /\ \E i \in 1..Len(a) : a[i] < b[i] /\ \A j \in 1..(i - 1) : a[j] = b[j]

\* In milliseconds since the epoch: the last instant of the year 9999, the first of
\* the year 1, the first seconds count localtime cannot convert, and the first that
\* does not fit time_t (UTC, a 64-bit time_t).
\* "253402300799999"
MaxDatetimeMs == <<50, 53, 51, 52, 48, 50, 51, 48, 48, 55, 57, 57, 57, 57, 57>>
MinDatetimeMs == <<54, 50, 49, 51, 53, 53, 57, 54, 56, 48, 48, 48, 48, 48>>  \* "62135596800000"
LocaltimeLimitMs ==
  \* "67768036191676800000"
  <<54, 55, 55, 54, 56, 48, 51, 54, 49, 57, 49, 54, 55, 54, 56, 48, 48, 48, 48, 48>>
TimeTLimitMs ==
  \* "9223372036854775807000"
  <<57, 50, 50, 51, 51, 55, 50, 48, 51, 54, 56, 53, 52, 55, 55, 53, 56, 48, 55, 48, 48, 48>>

\* datetime.fromtimestamp(n / 1000) for a whole number n: the datetime, ValueError for
\* a year outside 1..9999, OSError where localtime fails, OverflowError past time_t.
FromTimestampMs(n) ==
  IF n.neg
  THEN (IF DigitsLess(n.digits, MinDatetimeMs) THEN [t |-> "datetime", ms |-> n]
        ELSE IF DigitsLess(n.digits, LocaltimeLimitMs) THEN Raise("ValueError")
        ELSE IF DigitsLess(n.digits, TimeTLimitMs) THEN Raise("OSError")
        ELSE Raise("OverflowError"))
  ELSE (IF ~DigitsLess(MaxDatetimeMs, n.digits) THEN [t |-> "datetime", ms |-> n]
        ELSE IF DigitsLess(n.digits, LocaltimeLimitMs) THEN Raise("ValueError")
        ELSE IF DigitsLess(n.digits, TimeTLimitMs) THEN Raise("OSError")
        ELSE Raise("OverflowError"))

\* What a try block with except (ValueError, TypeError): pass leaves of d: None for
\* the two exceptions, d itself otherwise (a value, or an exception that goes on).
ExceptValueOrTypeError(d) ==
  IF IsRaise(d) /\ d.exc \in {"ValueError", "TypeError"} THEN PyNone ELSE d

\* datetime.fromtimestamp(n / 1000) where n is int(...) or the exception it raised.
FromTimestampOf(n) == IF IsRaise(n) THEN n ELSE FromTimestampMs(n)

\* One timestamp of the HubSpot normalizer: None when the property is falsy or the
\* try block catches ValueError or TypeError; any other exception is raised.
HubspotTime(properties, key) ==
  IF ~Truthy(PyGet(properties, key, PyNone)) THEN PyNone
  ELSE ExceptValueOrTypeError(FromTimestampOf(PyIntOf(Lookup(properties, key))))

\* The item_type hint as the str the item holds.
ItemTypeValue(item_type) ==
  PyStr(CASE item_type = "contact" -> <<99, 111, 110, 116, 97, 99, 116>>  \* "contact"
          [] item_type = "company" -> <<99, 111, 109, 112, 97, 110, 121>>  \* "company"
          [] OTHER -> <<100, 101, 97, 108>>)  \* "deal"

IntegrationItem(id, type, name, creation_time, last_modified_time, url, visibility) ==
  [t |-> "IntegrationItem", id |-> id, type |-> type, name |-> name,
   creation_time |-> creation_time, last_modified_time |-> last_modified_time,
   url |-> url, visibility |-> visibility]

HubspotContactUrl ==
  <<104, 116, 116, 112, 115, 58, 47, 47, 97, 112, 112, 46, 104, 117, 98, 115, 112, 111,
     \* "https://app.hubspot.com/contacts/"
     116, 46, 99, 111, 109, 47, 99, 111, 110, 116, 97, 99, 116, 115, 47>>

\* The name of a contact, from the stripped f"{first_name} {last_name}".
ContactName(properties, full) ==
  IF full # <<>> THEN PyStr(full)
  ELSE PyGet(properties, K_email,
             PyStr(<<85, 110, 107, 110, 111, 119, 110, 32, 67, 111, 110, 116, 97, 99,
                     116>>))  \* "Unknown Contact"

\* The name of the HubSpot normalizer for a properties dict.
HubspotName(properties, item_type) ==
  CASE item_type = "contact" ->
         ContactName(properties,
                     Strip(Format(PyGet(properties, K_firstname, PyStr(<<>>)))
                             \o <<32>>  \* " "
                             \o Format(PyGet(properties, K_lastname, PyStr(<<>>)))))
    [] item_type = "company" ->
         PyGet(properties, K_name,
               PyStr(<<85, 110, 107, 110, 111, 119, 110, 32, 67, 111, 109, 112, 97, 110,
                       121>>))  \* "Unknown Company"
    [] item_type = "deal" ->
         PyGet(properties, K_dealname,
               \* "Unknown Deal"
               PyStr(<<85, 110, 107, 110, 111, 119, 110, 32, 68, 101, 97, 108>>))
    \* "Unknown Item"
    [] OTHER -> PyStr(<<85, 110, 107, 110, 111, 119, 110, 32, 73, 116, 101, 109>>)

\* The HubSpot normalizer from the timestamps on: an exception a timestamp raised
\* goes on, else the item is built.
HubspotItem(item_id, item_type, name, creation_time, last_modified_time) ==
  IF IsRaise(creation_time) THEN creation_time
  ELSE IF IsRaise(last_modified_time) THEN last_modified_time
  ELSE IntegrationItem(PyStr(Format(item_id)), ItemTypeValue(item_type),
                       name, creation_time, last_modified_time,
                       IF item_type = "contact"
                       THEN PyStr(HubspotContactUrl \o Format(item_id)) ELSE PyNone,
                       PyBool(TRUE))

\* The HubSpot normalizer after its first two lines: properties.get raises
\* AttributeError when properties is not a dict.
HubspotNormalize(item_id, properties, item_type) ==
  IF IsRaise(item_id) THEN item_id
  ELSE IF properties.t # "obj" THEN Raise("AttributeError")
  ELSE HubspotItem(item_id, item_type, HubspotName(properties, item_type),
                   HubspotTime(properties, K_createdate),
                   HubspotTime(properties, K_hs_lastmodifieddate))

\* create_integration_item_metadata_object of hubspot.py: the item, or the exception
\* it raises.  item_type is "contact", "company", "deal" or another text.
hubspot_create_integration_item_metadata_object(response_json, item_type) ==
  HubspotNormalize(PyGet(response_json, K_id, PyNone),
                   PyGet(response_json, K_properties, PyDict(<<>>)), item_type)

\* s.replace("Z", "+00:00")
ReplaceZ(s) ==
  Concat([i \in 1..Len(s) |->
            IF s[i] = 90 THEN <<43, 48, 48, 58, 48, 48>>  \* "Z" "+00:00"
            ELSE <<s[i]>>])

\* The number a run of decimal digits s[i..j] writes.
Num(s, i, j) ==
  LET RECURSIVE Val(_)
      Val(k) == IF k < i THEN 0 ELSE (Val(k - 1) * 10) + (s[k] - 48)
  IN Val(j)

AllDigits(s, i, j) == j <= Len(s) /\ \A k \in i..j : IsDigit(s[k])

DaysInMonth(year, month) ==
  IF month = 2
  THEN (IF (year % 4 = 0 /\ year % 100 # 0) \/ year % 400 = 0 THEN 29 ELSE 28)
  ELSE IF month \in {4, 6, 9, 11} THEN 30 ELSE 31

\* The end of an ISO text s from index o on: nothing, or an offset +HH:MM or -HH:MM.
IsIsoOffset(s, o) ==
  \/ Len(s) = o - 1
  \/ /\ Len(s) = o + 5
     /\ s[o] \in {43, 45}  \* "+" "-"
     /\ AllDigits(s, o + 1, o + 2) /\ s[o + 3] = 58  \* ":"
     /\ AllDigits(s, o + 4, o + 5)
     /\ Num(s, o + 1, o + 2) <= 23 /\ Num(s, o + 4, o + 5) <= 59

\* Whether datetime.fromisoformat accepts s, for the extended format the provider
\* sends: YYYY-MM-DD, then optionally a separator character, HH:MM:SS, a fraction of
\* 3 or 6 digits and an offset +HH:MM or -HH:MM.
IsIsoFormat(s) ==
  /\ Len(s) >= 10
  /\ AllDigits(s, 1, 4) /\ s[5] = 45 /\ AllDigits(s, 6, 7)  \* "-"
  /\ s[8] = 45 /\ AllDigits(s, 9, 10)  \* "-"
  /\ Num(s, 1, 4) >= 1
  /\ Num(s, 6, 7) \in 1..12
  /\ Num(s, 9, 10) >= 1 /\ Num(s, 9, 10) <= DaysInMonth(Num(s, 1, 4), Num(s, 6, 7))
  /\ \/ Len(s) = 10
     \/ /\ Len(s) >= 19
        /\ AllDigits(s, 12, 13) /\ s[14] = 58 /\ AllDigits(s, 15, 16)  \* ":"
        /\ s[17] = 58 /\ AllDigits(s, 18, 19)  \* ":"
        /\ Num(s, 12, 13) <= 23 /\ Num(s, 15, 16) <= 59 /\ Num(s, 18, 19) <= 59
        /\ IF Len(s) >= 20 /\ s[20] = 46  \* "."
           THEN \/ AllDigits(s, 21, 26) /\ IsIsoOffset(s, 27)
                \/ ~AllDigits(s, 21, 26) /\ AllDigits(s, 21, 23) /\ IsIsoOffset(s, 24)
           ELSE IsIsoOffset(s, 20)

\* datetime.fromisoformat(s) inside the try block: the datetime, or None.
FromIsoFormat(s) == IF IsIsoFormat(s) THEN [t |-> "datetime", iso |-> s] ELSE PyNone

\* One timestamp of the Notion normalizer: None for a falsy value and for whatever
\* the try block catches (a value without replace, a text fromisoformat rejects).
NotionTime(v) ==
  IF ~Truthy(v) THEN PyNone
  ELSE IF v.t # "str" THEN PyNone
  ELSE FromIsoFormat(ReplaceZ(v.s))

RECURSIVE NotionTitle(_, _)
\* The body of the loop for the property prop, whose "type" member is type; rest
\* is what the loop gives from the next property on.
NotionTitleOf(prop, type, rest) ==
  IF IsRaise(type) THEN type
  ELSE IF type # PyStr(K_title) THEN rest
  ELSE IF Truthy(PyGet(prop, K_title, PyList(<<>>)))
          /\ PyGet(prop, K_title, PyList(<<>>)).t = "arr"
  THEN PyGet(PyGet(prop, K_title, PyList(<<>>)).a[1], K_plain_text, PyNone)
  ELSE rest

\* The loop over response_json["properties"].values() from the i-th property on:
\* the name it leaves (None when no property sets one), or the exception it raises.
NotionTitle(props, i) ==
  IF i > Len(props) THEN PyNone
  ELSE NotionTitleOf(props[i][2], PyGet(props[i][2], K_type, PyNone),
                     NotionTitle(props, i + 1))

\* The name the loop left, or obj_type.capitalize() + " Item" when it left none:
\* AttributeError when obj_type is not a str.
NotionName(found, obj_type) ==
  IF IsRaise(found) \/ Truthy(found) THEN found
  ELSE IF obj_type.t # "str" THEN Raise("AttributeError")
  ELSE PyStr(Capitalize(obj_type.s) \o <<32, 73, 116, 101, 109>>)  \* " Item"

\* The name the Notion normalizer looks for in the properties of response_json.
NotionFound(response_json) ==
  IF HasKey(response_json, K_properties)
  THEN (IF Lookup(response_json, K_properties).t # "obj"
        THEN Raise("AttributeError")
        ELSE NotionTitle(Lookup(response_json, K_properties).m, 1))
  ELSE PyNone

\* The Notion normalizer from the timestamps on.
NotionItem(response_json, item_id, obj_type, name) ==
  IF IsRaise(name) THEN name
  ELSE IntegrationItem(PyStr(Format(item_id)), obj_type, name,
                       NotionTime(PyGet(response_json, K_created_time, PyNone)),
                       NotionTime(PyGet(response_json, K_last_edited_time, PyNone)),
                       PyNone, PyBool(TRUE))

\* The Notion normalizer after its first two lines.
NotionNormalize(response_json, item_id, obj_type) ==
  IF IsRaise(item_id) THEN item_id
  ELSE NotionItem(response_json, item_id, obj_type,
                  NotionName(NotionFound(response_json), obj_type))

\* create_integration_item_metadata_object of notion.py: the item, or the exception
\* it raises.
notion_create_integration_item_metadata_object(response_json) ==
  NotionNormalize(response_json, PyGet(response_json, K_id, PyNone),
                  \* "unknown"
                  PyGet(response_json, K_object, PyStr(<<117, 110, 107, 110, 111, 119, 110>>)))

(* ------------------------- get_items inputs --------------------------- *)

GoodContact ==
  PyDict(<< <<K_id, PyStr(<<49>>)>>,  \* "1"
            <<K_properties,
              PyDict(<< <<K_firstname, PyStr(<<65, 110, 110>>)>>,  \* "Ann"
                        <<K_lastname, PyStr(<<76, 101, 101>>)>>,  \* "Lee"
                        <<K_createdate,
                          \* "1700000000000"
                          PyStr(<<49, 55, 48, 48, 48, 48, 48, 48, 48, 48, 48, 48, 48>>)>> >>)>> >>)

GoodCompany ==
  PyDict(<< <<K_id, PyStr(<<50>>)>>,  \* "2"
            <<K_properties, PyDict(<< <<K_name, PyStr(<<65, 99, 109, 101>>)>> >>)>> >>)  \* "Acme"

GoodDeal ==
  PyDict(<< <<K_id, PyStr(<<51>>)>>,  \* "3"
            <<K_properties, PyDict(<< <<K_dealname, PyStr(<<66, 105, 103>>)>> >>)>> >>)  \* "Big"

\* A record whose "properties" member is JSON null.
NullPropertiesItem ==
  PyDict(<< <<K_id, PyStr(<<57>>)>>, <<K_properties, PyNone>> >>)  \* "9"

GoodPage ==
  PyDict(<< <<K_id, PyStr(<<112, 49>>)>>,  \* "p1"
            <<K_object, PyStr(<<112, 97, 103, 101>>)>>,  \* "page"
            <<K_properties,
              PyDict(<< <<K_name,
                          PyDict(<< <<K_type, PyStr(K_title)>>,
                                    <<K_title,
                                      PyList(<< PyDict(<< <<K_plain_text,
                                                            PyStr(<<68, 111, 99>>)>>  \* "Doc"
                                                       >>) >>)>> >>)>> >>)>>,
            <<K_created_time,
              PyStr(<<50, 48, 50, 52, 45, 48, 49, 45, 48, 50, 84, 48, 51, 58, 48, 52, 58,
                       48, 53, 46, 48, 48, 48, 90>>)>> >>)  \* "2024-01-02T03:04:05.000Z"

ResultsBody(results) == PyDict(<< <<K_results, PyList(results)>> >>)

\* What one fetch of a category comes back with when its records are like good: a
\* network error, a 500, a 200 whose body is not JSON, a 200 with one record, and
\* a 200 whose second record has null properties.
ResponsesFor(good) ==
  { NetworkError,
    HttpResponse(500, PyDict(<<>>)),
    HttpResponse(200, Raise("JSONDecodeError")),
    HttpResponse(200, ResultsBody(<<good>>)),
    HttpResponse(200, ResultsBody(<<good, NullPropertiesItem>>)) }

ItemsResponses ==
  UNION {ResponsesFor(good) : good \in {GoodContact, GoodCompany, GoodDeal, GoodPage}}

T1Payload == PyDict(<< <<K_access_token, PyStr(<<116, 49>>)>> >>)  \* "t1"

T1Text == PyStr(json_dumps(T1Payload))

\* Credentials as objects: with a token, without the key, with an empty and a null
\* token.
CredentialObjects ==
  TokenPayloads \cup
  { PyDict(<<>>),
    PyDict(<< <<K_access_token, PyStr(<<>>)>> >>),
    PyDict(<< <<K_access_token, PyNone>> >> ) }

\* What get_items is called with: an object, its JSON text, or what is there when
\* the user is not connected (None, or the JSON text null).
ItemsCredentials ==
  CredentialObjects \cup {PyStr(json_dumps(c)) : c \in CredentialObjects}
    \cup {PyNone, PyStr(json_dumps(PyNone))}

(* ---------------------------- get_items ------------------------------- *)

\* Whether a for loop can run over v; over another value it raises TypeError.
IsIterable(v) == v.t \in {"arr", "obj", "str"}

\* The elements a for loop takes from an iterable v: those of a list, the keys of
\* a dict, the characters of a str.
Iterate(v) ==
  CASE v.t = "arr" -> v.a
    [] v.t = "obj" -> [i \in 1..Len(v.m) |-> PyStr(v.m[i][1])]
    [] OTHER -> [i \in 1..Len(v.s) |-> PyStr(<<v.s[i]>>)]

\* One request of get_items: the endpoint and the bearer token it carries.
ItemsRequest(endpoint, access_token) == [to |-> endpoint, token |-> access_token]

\* The entries of xs before the first raised exception.
UntilRaise(xs) ==
  SubSeq(xs, 1, Cardinality({i \in 1..Len(xs) : \A j \in 1..i : ~IsRaise(xs[j])}))

\* The loop of one category: every normalized result is appended until the
\* normalizer raises; the list as it is when the loop ends or is left.
HubspotAppendAll(items, results, item_type) ==
  items \o UntilRaise([i \in 1..Len(results) |->
                         hubspot_create_integration_item_metadata_object(results[i],
                                                                         item_type)])

\* One try block of get_items_hubspot: the list after it.  Whatever is raised inside
\* (by the request, by response.json(), by the loop) is caught and printed.
HubspotTry(items, response, item_type) ==
  IF response.kind # "response" \/ response.status # 200 THEN items
  ELSE IF IsRaise(response.json) THEN items
  ELSE LET results == PyGet(response.json, K_results, PyList(<<>>)) IN
       IF IsRaise(results) \/ ~IsIterable(results) THEN items
       ELSE HubspotAppendAll(items, Iterate(results), item_type)

\* What a try block appends for each answer and category, computed once.
HubspotAppended ==
  [r \in ItemsResponses \X {"contact", "company", "deal"} |->
     HubspotTry(<<>>, r[1], r[2])] @@ <<>>

\* The list after one try block: a block only ever appends to it.
HubspotFetch(items, response, item_type) ==
  items \o HubspotAppended[<<response, item_type>>]

ItemsRecord(credentials, responses, outcome, result, requests) ==
  [op |-> "get_items", credentials |-> credentials, responses |-> responses,
   outcome |-> outcome, result |-> result, requests |-> requests]

\* Credentials used as they come, a str not decoded.
LoadedCredentials_as_given(credentials) == credentials

\* The credentials get_items works with: json.loads of a str, else the value itself.
LoadedCredentials(credentials) ==
  IF credentials.t = "str" THEN json_loads(credentials.s) ELSE credentials

\* The access token get_items reads for each credentials value, or the exception
\* reading it raises; computed once.
AccessToken ==
  [credentials \in ItemsCredentials |->
     LET creds == LoadedCredentials(credentials) IN
     IF IsRaise(creds) THEN creds ELSE PyGet(creds, K_access_token, PyNone)] @@ <<>>

\* What get_items_hubspot comes to for the access token read from the credentials:
\* the record of the call.
HubspotItems(credentials, access_token, contacts, companies, deals) ==
  IF IsRaise(access_token)
  THEN ItemsRecord(credentials, <<>>, Unhandled(access_token.exc), PyNone, <<>>)
  ELSE IF ~Truthy(access_token)
  THEN ItemsRecord(credentials, <<>>, Returned, PyList(<<>>), <<>>)
  ELSE ItemsRecord(credentials, <<contacts, companies, deals>>, Returned,
         PyList(HubspotFetch(HubspotFetch(HubspotFetch(<<>>, contacts, "contact"),
                                          companies, "company"), deals, "deal")),
         << ItemsRequest("contacts", access_token),
            ItemsRequest("companies", access_token),
            ItemsRequest("deals", access_token) >>)

\* get_items_hubspot(credentials), with what the three fetches come back with.
get_items_hubspot(credentials, contacts, companies, deals) ==
  /\ provider = "hubspot"
  /\ last' = HubspotItems(credentials, AccessToken[credentials], contacts, companies, deals)
  /\ UNCHANGED <<provider, store, asked_ttl, now>>

\* The list xs, or the first exception in it.
ListOrRaise(xs) ==
  IF \A i \in 1..Len(xs) : ~IsRaise(xs[i]) THEN PyList(xs)
  ELSE xs[CHOOSE i \in 1..Len(xs) : IsRaise(xs[i]) /\ \A j \in 1..(i - 1) : ~IsRaise(xs[j])]

\* The loop of get_items_notion: the list, or the exception the normalizer raises.
NotionAppendAll(items, results) ==
  ListOrRaise(items \o [i \in 1..Len(results) |->
                          notion_create_integration_item_metadata_object(results[i])])

\* The body of get_items_notion after the request: nothing in it is caught.
NotionFetch(response) ==
  IF response.kind # "response" THEN Raise("RequestError")
  ELSE IF response.status # 200 THEN PyList(<<>>)
  ELSE IF IsRaise(response.json) THEN response.json
  ELSE LET results == PyGet(response.json, K_results, PyList(<<>>)) IN
       IF IsRaise(results) THEN results
       ELSE IF ~IsIterable(results) THEN Raise("TypeError")
       ELSE NotionAppendAll(<<>>, Iterate(results))

\* What the body comes to for each answer, computed once.
NotionFetched == [response \in ItemsResponses |-> NotionFetch(response)] @@ <<>>

\* What get_items_notion comes to for the access token read from the credentials
\* and the result of the body: the record of the call.
NotionItems(credentials, access_token, response, result) ==
  IF IsRaise(access_token)
  THEN ItemsRecord(credentials, <<>>, Unhandled(access_token.exc), PyNone, <<>>)
  ELSE IF ~Truthy(access_token)
  THEN ItemsRecord(credentials, <<>>, Returned, PyList(<<>>), <<>>)
  ELSE ItemsRecord(credentials, <<response>>,
                   IF IsRaise(result) THEN Unhandled(result.exc) ELSE Returned,
                   IF IsRaise(result) THEN PyNone ELSE result,
                   <<ItemsRequest("search", access_token)>>)

\* get_items_notion(credentials), with what the search request comes back with.
get_items_notion(credentials, response) ==
  /\ provider = "notion"
  /\ last' = NotionItems(credentials, AccessToken[credentials], response,
                         NotionFetched[response])
  /\ UNCHANGED <<provider, store, asked_ttl, now>>

(* --------------------------- specification ---------------------------- *)

\* The seconds one step of the clock takes, and the last instant the model reaches.
TickSeconds == 600
MaxClock == 600

EmptyDict == [k \in {} |-> <<>>]

\* How many oauth2callback_notion coroutines run side by side.
MaxCalls == 2

Tasks == 1..MaxCalls

\* A coroutine that has not been started.
NotStarted == [pc |-> "idle"]

\* Both modules start with redis_client = MockRedisClient(): an empty store; no
\* state has been issued and no request is being handled.
Init ==
  /\ provider \in {"hubspot", "notion"}
  /\ store = EmptyDict
  /\ asked_ttl = EmptyDict
  /\ now = 0
  /\ last = [op |-> "none", outcome |-> Returned, result |-> PyNone, requests |-> <<>>]
  /\ attempts = EmptyDict
  /\ calls = [t \in Tasks |-> NotStarted]

\* Time passes; nothing in either module runs on a timer.
Tick ==
  /\ now + TickSeconds <= MaxClock
  /\ now' = now + TickSeconds
  /\ UNCHANGED <<provider, store, asked_ttl, last>>
  /\ NoFlow

Authorize ==
  \E p \in Pairs, token \in Nonces :
    \/ authorize_hubspot(p[2], p[1], token) /\ NoFlow
    \/ authorize_notion(p[2], p[1], token) /\ NoFlow

Callback ==
  \E error \in ErrorParams :
    \/ oauth2callback_hubspot(error) /\ NoFlow
    \/ oauth2callback_notion(error) /\ NoFlow

GetCredentials ==
  \E p \in Pairs :
    \/ get_hubspot_credentials(p[2], p[1]) /\ NoFlow
    \/ get_notion_credentials(p[2], p[1]) /\ NoFlow

\* get_items reads nothing of the store: next to the OAuth operations it is called
\* with the stored credentials' text and an outage or a full answer everywhere.
GetItems ==
  \E failed \in BOOLEAN :
    \/ NoFlow /\
       get_items_hubspot(T1Text,
                         IF failed THEN NetworkError
                         ELSE HttpResponse(200, ResultsBody(<<GoodContact>>)),
                         IF failed THEN NetworkError
                         ELSE HttpResponse(200, ResultsBody(<<GoodCompany>>)),
                         IF failed THEN NetworkError
                         ELSE HttpResponse(200, ResultsBody(<<GoodDeal>>)))
    \/ NoFlow /\
       get_items_notion(T1Text,
                        IF failed THEN NetworkError
                        ELSE HttpResponse(200, ResultsBody(<<GoodPage>>)))

Next == Authorize \/ Callback \/ GetCredentials \/ GetItems

Spec == Init /\ [][Next]_vars

\* The same operations while time passes.
NextClock == Next \/ Tick

SpecClock == Init /\ [][NextClock]_vars

\* get_items on every combination of credentials and provider answers.
GetItemsAny ==
  /\ NoFlow
  /\ \E credentials \in ItemsCredentials :
       IF IsRaise(AccessToken[credentials]) \/ ~Truthy(AccessToken[credentials])
       THEN \/ get_items_hubspot(credentials, NoResponse, NoResponse, NoResponse)
            \/ get_items_notion(credentials, NoResponse)
       ELSE \/ \E contacts \in ResponsesFor(GoodContact),
                  companies \in ResponsesFor(GoodCompany),
                  deals \in ResponsesFor(GoodDeal) :
                 get_items_hubspot(credentials, contacts, companies, deals)
            \/ \E response \in ResponsesFor(GoodPage) :
                 get_items_notion(credentials, response)

NextItems == GetItemsAny

SpecItems == Init /\ [][NextItems]_vars

(* ------------------------------ claims -------------------------------- *)

\* The value the store holds for a key as a caller reads it.
Entry(st, key) == get_value_redis(st, key)

\* The org_id and user_id a callback's state parameter names, as the handlers read
\* them: None for a member the decoded object lacks.
StateOrg(encoded_state) == PyGet(DecodedState[encoded_state.s], K_org_id, PyNone)
StateUser(encoded_state) == PyGet(DecodedState[encoded_state.s], K_user_id, PyNone)

\* The state key and the token key of a pair of identifier values.
StateKey(org_id, user_id) == NamespacedKey(StatePrefix(provider), org_id, user_id)
TokensKey(org_id, user_id) == NamespacedKey(TokensPrefix(provider), org_id, user_id)

\* A callback's state parameter is tampered or absent: it is no stored state.
Tampered(st, encoded_state) ==
  encoded_state.t # "str" \/ \A k \in StateKeys(st) : st[k] # encoded_state.s

\* A call that ended in an HTTPException with a 4xx status and one of the details.
FailsWith(outcome, details) ==
  /\ outcome.kind = "HTTPException"
  /\ outcome.status >= 400 /\ outcome.status <= 499
  /\ outcome.detail \in details

\* C1: a callback (no error parameter, a code present) whose state parameter is
\* absent or is not a state the store holds fails with a 4xx state error, and
\* the store has the same token keys after it as before.
C1_TamperedStateWritesNoToken ==
  [][(/\ last'.op = "callback"
      /\ ~Truthy(last'.error)
      /\ Truthy(last'.code)
      /\ Tampered(store, last'.state))
     => /\ FailsWith(last'.outcome,
                     {MissingCodeOrState, InvalidStateDetail, StateDoesNotMatch})
        /\ TokenKeys(store') = TokenKeys(store)]_vars

\* C2: after a callback that completed successfully, the state key of the pair its
\* state names is absent from the store and the token key of that pair is present.
C2_SuccessLeavesTokenAndNoState ==
  (last.op = "callback" /\ last.outcome = Returned)
  => /\ StateKey(StateOrg(last.state), StateUser(last.state)) \notin DOMAIN store
     /\ TokensKey(StateOrg(last.state), StateUser(last.state)) \in DOMAIN store

\* The value of the query parameter name in a URL built without escaping: the text
\* between "name=" after a "?" or "&" and the next "&"; <<>> when there is none.
QueryParam(url, name) ==
  LET starts == {i \in 2..Len(url) :
                   /\ url[i - 1] \in {63, 38}  \* "?" "&"
                   /\ StartsWithAt(url, name \o <<61>>, i)}  \* "="
  IN IF starts = {} THEN <<>>
     ELSE LET from == (CHOOSE i \in starts : \A j \in starts : i <= j) + Len(name) + 1
              ends == {i \in from..Len(url) : url[i] = 38}  \* "&"
          IN SubSeq(url, from,
                    IF ends = {} THEN Len(url)
                    ELSE (CHOOSE i \in ends : \A j \in ends : i <= j) - 1)

\* C3: after authorize(user_id, org_id), the state parameter of the returned URL is
\* the value stored under the pair's state key, and it decodes (URL-safe base64,
\* then JSON) to an object whose user_id and org_id are the inputs.
C3_StateRoundTrip ==
  last.op = "authorize"
  => LET encoded_state == QueryParam(last.result, K_state)
         key == StateKey(PyStr(last.org_id), PyStr(last.user_id))
         state_data == decode_state(encoded_state)
     IN /\ key \in DOMAIN store
        /\ store[key] = encoded_state
        /\ state_data.t = "obj"
        /\ PyIndex(state_data, K_user_id) = PyStr(last.user_id)
        /\ PyIndex(state_data, K_org_id) = PyStr(last.org_id)

\* An authorize call has run for a pair whose identifiers need JSON escaping.
C3_Witness ==
  /\ last.op = "authorize"
  /\ \E i \in 1..Len(last.user_id) : last.user_id[i] \in {34, 92}  \* """ "\"
  /\ StateKey(PyStr(last.org_id), PyStr(last.user_id)) \in DOMAIN store

\* The pair an operation recorded in l was performed for, as identifier values;
\* <<>> for an operation that is for no pair.
PairOfCall(l) ==
  IF l.op = "authorize" THEN <<PyStr(l.org_id), PyStr(l.user_id)>>
  ELSE IF l.op = "callback" /\ l.state.t = "str"
          /\ DecodedState[l.state.s].t = "obj"
       THEN <<StateOrg(l.state), StateUser(l.state)>>
  ELSE <<>>

\* C4: an authorize or callback performed for one pair leaves the state entry and
\* the token entry of every other pair as they were.
C4_OtherPairsUntouched ==
  [][\A q \in Pairs :
       (/\ last'.op \in {"authorize", "callback"}
        /\ PairOfCall(last') # <<>>
        /\ PairOfCall(last') # <<PyStr(q[1]), PyStr(q[2])>>)
       => /\ Entry(store', StateKey(PyStr(q[1]), PyStr(q[2])))
               = Entry(store, StateKey(PyStr(q[1]), PyStr(q[2])))
          /\ Entry(store', TokensKey(PyStr(q[1]), PyStr(q[2])))
               = Entry(store, TokensKey(PyStr(q[1]), PyStr(q[2])))]_vars

\* C5: a key set with an expiry is absent from the store once the expiry asked for
\* has passed.
C5_StateExpires ==
  \A k \in DOMAIN asked_ttl : now >= asked_ttl[k] => k \notin DOMAIN store

\* C6 as stated: no step changes or removes a token record that exists.
C6_TokenNeverChanges ==
  [][\A k \in TokenKeys(store) : k \in DOMAIN store' /\ store'[k] = store[k]]_vars

\* C6, amended: no step removes a token record that exists, and only a successful
\* callback whose state names the record's pair changes its value, to the payload
\* the token endpoint answered with.
C6_TokenOnlyReplacedByCallback ==
  [][\/ store' = store
     \/ \A k \in TokenKeys(store) :
          /\ k \in DOMAIN store'
          /\ store'[k] # store[k]
             => /\ last'.op = "callback"
                /\ last'.outcome = Returned
                /\ k = TokensKey(StateOrg(last'.state), StateUser(last'.state))
                /\ store'[k] = DumpedTokens[last'.response.json]]_vars

\* A token record is there after an authorize call for its own pair.
C6_Witness ==
  /\ last.op = "authorize"
  /\ TokensKey(PyStr(last.org_id), PyStr(last.user_id)) \in DOMAIN store

\* C7: get_<provider>_credentials(user_id, org_id) leaves the store unchanged; when
\* the pair's token key holds the payload T a callback stored, it returns T;
\* when the key is absent, HubSpot fails with 401 and Notion returns None.
C7_CredentialsReadTokenKey ==
  [][last'.op = "get_credentials"
     => /\ store' = store
        /\ LET key == TokensKey(PyStr(last'.org_id), PyStr(last'.user_id)) IN
           IF key \in DOMAIN store
           THEN /\ last'.outcome = Returned
                /\ \E payload \in TokenPayloads :
                     DumpedTokens[payload] = store[key] /\ last'.result = payload
           ELSE IF provider = "hubspot"
           THEN last'.outcome = HTTPException(401, NoCredentialsFound)
           ELSE last'.outcome = Returned /\ last'.result = PyNone]_vars

\* Credentials were read for a pair whose token key a callback had written.
C7_Witness ==
  /\ last.op = "get_credentials"
  /\ TokensKey(PyStr(last.org_id), PyStr(last.user_id)) \in DOMAIN store
  /\ last.result \in TokenPayloads

\* C8: a callback that fails for its input (not for the network) fails with a 4xx
\* HTTPException; an error parameter gives its text whatever code and state are,
\* else a missing code or state gives the missing-parameter error, else a state
\* that does not decode gives the invalid-state error, and in these three cases no
\* request was sent.
C8_FailuresAreTaxonomy4xx ==
  (last.op = "callback" /\ last.outcome # Returned /\ last.response.kind # "raise")
  => /\ last.outcome.kind = "HTTPException"
     /\ last.outcome.status >= 400 /\ last.outcome.status <= 499
     /\ Truthy(last.error)
        => last.outcome.detail = last.error.s /\ last.requests = <<>>
     /\ (~Truthy(last.error) /\ (~Truthy(last.code) \/ ~Truthy(last.state)))
        => last.outcome.detail = MissingCodeOrState /\ last.requests = <<>>
     /\ (/\ ~Truthy(last.error) /\ Truthy(last.code) /\ Truthy(last.state)
         /\ IsRaise(DecodedState[last.state.s]))
        => last.outcome.detail = InvalidStateDetail /\ last.requests = <<>>

\* Credentials that are an object, or the JSON text of one, without a non-empty
\* access_token.
LacksAccessToken(credentials) ==
  \E c \in CredentialObjects \ TokenPayloads :
    credentials = c \/ credentials = PyStr(json_dumps(c))

\* C9: get_items given credentials (an object or its JSON text) without a non-empty
\* access_token returns an empty list, raises nothing and sends no request.
C9_NoTokenNoItems ==
  (last.op = "get_items" /\ LacksAccessToken(last.credentials))
  => /\ last.outcome = Returned
     /\ last.result = PyList(<<>>)
     /\ last.requests = <<>>

\* get_items has run on the JSON text of credentials whose access_token is empty.
C9_Witness ==
  /\ last.op = "get_items"
  /\ last.credentials.t = "str"
  /\ last.credentials = PyStr(json_dumps(PyDict(<< <<K_access_token, PyStr(<<>>)>> >>)))
  /\ last.result = PyList(<<>>)

\* The records of a category's answer, when it is a 200 with a JSON body whose
\* results are a list; <<>> otherwise.
ResultsOf(response) ==
  IF /\ response.kind = "response" /\ response.status = 200
     /\ ~IsRaise(response.json)
     /\ PyGet(response.json, K_results, PyList(<<>>)).t = "arr"
  THEN PyGet(response.json, K_results, PyList(<<>>)).a
  ELSE <<>>

\* A category's fetch succeeds: a 200 answer with a JSON body, every record of which
\* is normalized.
Succeeds(response, item_type) ==
  /\ response.kind = "response" /\ response.status = 200
  /\ ~IsRaise(response.json)
  /\ PyGet(response.json, K_results, PyList(<<>>)).t = "arr"
  /\ \A i \in 1..Len(ResultsOf(response)) :
       ~IsRaise(hubspot_create_integration_item_metadata_object(ResultsOf(response)[i],
                                                                item_type))

\* The normalized objects of a category that succeeded, nothing for one that failed.
NormalizedOf(response, item_type) ==
  IF Succeeds(response, item_type)
  THEN [i \in 1..Len(ResultsOf(response)) |->
          hubspot_create_integration_item_metadata_object(ResultsOf(response)[i],
                                                          item_type)]
  ELSE <<>>

\* C10: get_items_hubspot with a token sends one request per category in the order
\* contacts, companies, deals whichever of them fail, and returns the normalized
\* objects of the categories that succeeded, in that order.
C10_FailedCategoriesContributeNothing ==
  (last.op = "get_items" /\ provider = "hubspot" /\ last.responses # <<>>)
  => /\ last.outcome = Returned
     /\ [i \in 1..Len(last.requests) |-> last.requests[i].to]
          = <<"contacts", "companies", "deals">>
     /\ last.result =
          PyList(NormalizedOf(last.responses[1], "contact")
                   \o NormalizedOf(last.responses[2], "company")
                   \o NormalizedOf(last.responses[3], "deal"))

\* A fetch that failed: the HTTP call raised a network error, or the answer has a
\* status other than 200.
FetchFailed(response) ==
  response.kind = "raise" \/ (response.kind = "response" /\ response.status # 200)

\* C11: get_items with a token, one of whose fetches fails (a network error or a
\* non-success status), raises nothing and returns a list; when every fetch fails
\* the list is empty.
C11_FetchFailuresDoNotPropagate ==
  (/\ last.op = "get_items"
   /\ \E i \in 1..Len(last.responses) : FetchFailed(last.responses[i]))
  => /\ last.outcome = Returned
     /\ last.result.t = "arr"
     /\ (\A i \in 1..Len(last.responses) : FetchFailed(last.responses[i]))
        => last.result = PyList(<<>>)

(* ------------------------- normalizer inputs -------------------------- *)

\* A member a provider object does not have.
Absent == [t |-> "absent"]

\* The dict of the members that are there.
DictOf(members) == PyDict(SelectSeq(members, LAMBDA p : p[2] # Absent))

\* The firstname, lastname and email members of the contacts the model normalizes:
\* absent, JSON null, empty, blank and ordinary texts.
FirstNames == {Absent, PyNone, PyStr(<<>>), PyStr(<<32>>), PyStr(<<65, 110, 110>>)}  \* " " "Ann"
LastNames == {Absent, PyNone, PyStr(<<76, 101, 101>>)}  \* "Lee"
Emails == {Absent, PyNone, PyStr(<<>>), PyStr(<<97, 64, 98, 46, 99>>)}  \* "a@b.c"

\* A createdate member: absent, null, epoch milliseconds as a text, a text that is
\* no number, a list, an instant past the year 9999 and one past what time_t holds.
CreateDates ==
  { Absent, PyNone,
    PyStr(<<49, 55, 48, 48, 48, 48, 48, 48, 48, 48, 48, 48, 48>>),  \* "1700000000000"
    PyStr(<<97, 98, 99>>),  \* "abc"
    PyList(<<>>),
    PyStr(<<57, 57, 57, 57, 57, 57, 57, 57, 57, 57, 57, 57, 57, 57, 57, 57, 57, 57>>),  \* "999999999999999999"
    PyStr(<<57, 57, 57, 57, 57, 57, 57, 57, 57, 57, 57, 57, 57, 57, 57, 57, 57, 57, 57, 57, 57, 57, 57>>) }  \* "99999999999999999999999"

\* A properties member that is no mapping: absent, null, a list, a text.
OddProperties == {Absent, PyNone, PyList(<<>>), PyStr(<<120>>)}  \* "x"

HubspotRecord(properties) ==
  DictOf(<< <<K_id, PyStr(<<49>>)>>, <<K_properties, properties>> >>)  \* "1"

\* The decoded HubSpot objects the model normalizes.
HubspotObjects ==
  {HubspotRecord(DictOf(<< <<K_firstname, f>>, <<K_lastname, l>>, <<K_email, e>> >>)) :
     f \in FirstNames, l \in LastNames, e \in Emails}
  \cup {HubspotRecord(DictOf(<< <<K_name, PyStr(<<65, 99, 109, 101>>)>>,  \* "Acme"
                                <<K_createdate, c>> >>)) : c \in CreateDates}
  \cup {HubspotRecord(p) : p \in OddProperties}

ItemTypes == {"contact", "company", "deal"}

\* One entry of a title array.
PlainText(text) == DictOf(<< <<K_plain_text, text>> >>)

\* A property of a Notion object with the given type and title members.
NotionProperty(type, title) == DictOf(<< <<K_type, type>>, <<K_title, title>> >>)

TitleType == PyStr(K_title)

K_other == <<84, 97, 103, 115>>  \* "Tags"

\* The first property of the Notion objects the model normalizes: a title with a
\* text, with an empty array, with entries that have no, a null or an empty text or
\* are no mappings, a title that is no array, a property of another type, and
\* properties that are no mappings.
FirstProperties ==
  { NotionProperty(TitleType, PyList(<<PlainText(PyStr(<<68, 111, 99>>))>>)),  \* "Doc"
    NotionProperty(TitleType, PyList(<<>>)),
    NotionProperty(TitleType, PyList(<<PlainText(Absent)>>)),
    NotionProperty(TitleType, PyList(<<PlainText(PyNone)>>)),
    NotionProperty(TitleType, PyList(<<PlainText(PyStr(<<>>))>>)),
    NotionProperty(TitleType, PyList(<<PyStr(<<120>>)>>)),  \* "x"
    NotionProperty(TitleType, PyStr(<<120>>)),  \* "x"
    NotionProperty(TitleType, Absent),
    NotionProperty(PyStr(<<109, 117, 108, 116, 105, 95, 115, 101, 108, 101, 99, 116>>), Absent),  \* "multi_select"
    PyNone,
    PyStr(<<120>>) }  \* "x"

\* A second title-typed property with a text.
SecondProperty == NotionProperty(TitleType, PyList(<<PlainText(PyStr(<<83, 101, 99, 111, 110, 100>>))>>))  \* "Second"

\* The properties member of a Notion object: absent, null, empty, one property, or
\* one property followed by a title-typed one.
NotionPropertiesValues ==
  {Absent, PyNone, PyDict(<<>>)}
  \cup {PyDict(<< <<K_other, p>> >>) : p \in FirstProperties}
  \cup {PyDict(<< <<K_other, p>>, <<K_name, SecondProperty>> >>) : p \in FirstProperties}

ObjectTypes == {Absent, PyNone, PyStr(<<112, 97, 103, 101>>), PyStr(<<100, 97, 116, 97, 66, 97, 115, 101>>)}  \* "page" "dataBase"

\* A created_time member: absent, null, ISO-8601 with a trailing Z, a text that is
\* no date, a day that does not exist, a number.
CreatedTimes ==
  { Absent, PyNone,
    PyStr(<<50, 48, 50, 52, 45, 48, 49, 45, 48, 50, 84, 48, 51, 58, 48, 52, 58, 48, 53, 46, 48, 48, 48, 90>>),  \* "2024-01-02T03:04:05.000Z"
    PyStr(<<115, 111, 111, 110>>),  \* "soon"
    PyStr(<<50, 48, 50, 52, 45, 48, 50, 45, 51, 48, 84, 48, 48, 58, 48, 48, 58, 48, 48, 46, 48, 48, 48, 90>>),  \* "2024-02-30T00:00:00.000Z"
    PyInt(5) }

\* The decoded Notion objects the model normalizes.
NotionObjects ==
  {DictOf(<< <<K_id, PyStr(<<112, 49>>)>>, <<K_object, o>>, <<K_properties, p>>,  \* "p1"
             <<K_created_time, c>> >>) :
     o \in ObjectTypes, p \in NotionPropertiesValues, c \in CreatedTimes}

(* ----------------------------- normalizer ----------------------------- *)

\* The record of a call of create_integration_item_metadata_object in last: item is
\* what the function came to, the item or the exception it raised.
NormalizeRecord(object, item_type, item) ==
  [op |-> "normalize", object |-> object, item_type |-> item_type,
   outcome |-> IF IsRaise(item) THEN Unhandled(item.exc) ELSE Returned,
   result |-> IF IsRaise(item) THEN PyNone ELSE item, requests |-> <<>>]

\* create_integration_item_metadata_object(response_json, item_type) of hubspot.py.
NormalizeHubspot ==
  \E response_json \in HubspotObjects, item_type \in ItemTypes :
    /\ provider = "hubspot"
    /\ last' = NormalizeRecord(response_json, item_type,
                 hubspot_create_integration_item_metadata_object(response_json, item_type))
    /\ UNCHANGED <<provider, store, asked_ttl, now>>
    /\ NoFlow

\* create_integration_item_metadata_object(response_json) of notion.py.
NormalizeNotion ==
  \E response_json \in NotionObjects :
    /\ provider = "notion"
    /\ last' = NormalizeRecord(response_json, "",
                 notion_create_integration_item_metadata_object(response_json))
    /\ UNCHANGED <<provider, store, asked_ttl, now>>
    /\ NoFlow

NextNormalize == NormalizeHubspot \/ NormalizeNotion

\* The normalizers on every object of the model.
SpecNormalize == Init /\ [][NextNormalize]_vars

\* C12: create_integration_item_metadata_object of either provider raises nothing
\* and returns an item, whatever the decoded object holds.
C12_NormalizerNeverFails ==
  last.op = "normalize"
  => /\ last.outcome = Returned
     /\ last.result.t = "IntegrationItem"

\* The member key of the object d, Absent when d does not have it.
Member(d, key) == IF d.t = "obj" /\ HasKey(d, key) THEN Lookup(d, key) ELSE Absent

\* A member that is present: it is there and is not JSON null.
Present(v) == v.t \notin {"absent", "null"}

\* The text of a name member, empty for one that is not present.
TextOf(v) == IF v.t = "str" THEN v.s ELSE <<>>

\* The name C13 gives a contact with these properties: the stripped "first last",
\* else the email when present, else "Unknown Contact".
ExpectedContactName(properties) ==
  LET full == Strip(TextOf(Member(properties, K_firstname)) \o <<32>>  \* " "
                      \o TextOf(Member(properties, K_lastname)))
  IN IF full # <<>> THEN PyStr(full)
     ELSE IF Present(Member(properties, K_email)) THEN Member(properties, K_email)
     ELSE PyStr(<<85, 110, 107, 110, 111, 119, 110, 32, 67, 111, 110, 116, 97, 99, 116>>)  \* "Unknown Contact"

\* The positions of the title-typed properties whose title array is not empty.
TitledProperties(props) ==
  {i \in 1..Len(props) :
     /\ Member(props[i][2], K_type) = PyStr(K_title)
     /\ Member(props[i][2], K_title).t = "arr"
     /\ Member(props[i][2], K_title).a # <<>>}

\* The plain_text of the first entry of the first such property, Absent without one.
FirstTitleText(props) ==
  IF TitledProperties(props) = {} THEN Absent
  ELSE Member(Member(props[CHOOSE i \in TitledProperties(props) :
                             \A j \in TitledProperties(props) : i <= j][2],
                     K_title).a[1], K_plain_text)

\* The name C13 gives a Notion object of type obj_type with these properties.
ExpectedNotionName(props, obj_type) ==
  IF FirstTitleText(props).t = "str" /\ FirstTitleText(props).s # <<>>
  THEN FirstTitleText(props)
  ELSE PyStr(Capitalize(obj_type.s) \o <<32, 73, 116, 101, 109>>)  \* " Item"

\* C13: a contact the HubSpot normalizer returns an item for is named by the stripped
\* concatenation of firstname and lastname, else by its email, else "Unknown
\* Contact"; an object with a text type the Notion normalizer returns an item for
\* is named by the plain_text of the first entry of its first non-empty title-typed
\* property, else by its capitalized type followed by " Item".
C13_NameDerivation ==
  (last.op = "normalize" /\ last.outcome = Returned)
  => /\ (provider = "hubspot" /\ last.item_type = "contact")
        => last.result.name = ExpectedContactName(Member(last.object, K_properties))
     /\ (provider = "notion" /\ Member(last.object, K_object).t = "str")
        => last.result.name =
             ExpectedNotionName(IF Member(last.object, K_properties).t = "obj"
                                THEN Member(last.object, K_properties).m ELSE <<>>,
                                Member(last.object, K_object))

\* C14: a callback whose code exchange the token endpoint answers with a status
\* other than 200 fails with the 4xx token-exchange error and leaves the store as
\* it was: no token record written, the pending state entry neither deleted nor
\* changed.
C14_FailedExchangeLeavesStore ==
  [][(/\ last'.op = "callback"
      /\ last'.response.kind = "response"
      /\ last'.response.status # 200)
     => /\ FailsWith(last'.outcome, {FailedToExchange})
        /\ last'.requests = <<TokenRequest(last'.code.s)>>
        /\ store' = store]_vars

\* A code exchange was refused while the state the callback carried was pending.
C14_Witness ==
  /\ last.op = "callback"
  /\ last.response.kind = "response" /\ last.response.status # 200
  /\ last.outcome = HTTPException(400, FailedToExchange)
  /\ Entry(store, StateKey(StateOrg(last.state), StateUser(last.state))) = last.state
  /\ TokenKeys(store) = {}

\* C15: authorize_<provider>(user_id, org_id) returns having set the key
\* {provider}_state:{org_id}:{user_id}; every other key of the store is there after
\* it exactly when it was before, with the same value: the token keys are as they
\* were and so is the state entry of every other pair; and the call sends no HTTP
\* request.
C15_AuthorizeSetsOneKey ==
  [][last'.op = "authorize"
     => LET key == StatePrefix(provider) \o last'.org_id \o <<58>> \o last'.user_id  \* ":"
        IN /\ last'.outcome = Returned
           /\ key \in DOMAIN store'
           /\ DOMAIN store' = DOMAIN store \cup {key}
           /\ \A k \in DOMAIN store \ {key} : store'[k] = store[k]
           /\ TokenKeys(store') = TokenKeys(store)
           /\ \A q \in Pairs \ {<<last'.org_id, last'.user_id>>} :
                Entry(store', StateKey(PyStr(q[1]), PyStr(q[2])))
                  = Entry(store, StateKey(PyStr(q[1]), PyStr(q[2])))
           /\ last'.requests = <<>>]_vars

(* ------------------------- authorization flows ------------------------- *)

\* attempts after authorize stored encoded_state under key: the new state is
\* pending, and a pending state the set replaced is superseded.
AttemptsAfterAuthorize(key, encoded_state) ==
  [s \in DOMAIN attempts \cup {encoded_state} |->
     IF s = encoded_state THEN "pending"
     ELSE IF attempts[s] = "pending" /\ Entry(store, key) = PyStr(s) THEN "superseded"
     ELSE attempts[s]]

\* attempts after the callback recorded in l: a callback that succeeded has consumed
\* the issued state it carried.
AttemptsAfterCallback(l) ==
  IF l.outcome = Returned /\ l.state.s \in DOMAIN attempts
  THEN [attempts EXCEPT ![l.state.s] = "consumed"]
  ELSE attempts

\* The pair whose authorization attempts are followed.
FlowPair == <<<<97>>, <<98, 58, 99>>>>  \* "a" "b:c"

\* authorize_<provider> for the pair: secrets.token_urlsafe(32) returns a value it
\* has not returned before.
AuthorizeFlow ==
  \E token \in Nonces :
    /\ EncodedState[<<FlowPair, token>>] \notin DOMAIN attempts
    /\ \/ authorize_hubspot(FlowPair[2], FlowPair[1], token)
       \/ authorize_notion(FlowPair[2], FlowPair[1], token)
    /\ attempts' = AttemptsAfterAuthorize(StateKey(PyStr(FlowPair[1]), PyStr(FlowPair[2])),
                                          EncodedState[<<FlowPair, token>>])
    /\ UNCHANGED calls

\* oauth2callback_notion, the callback that checks the state, each request handled
\* before the next one arrives.
CallbackFlow ==
  \E error \in ErrorParams :
    /\ oauth2callback_notion(error)
    /\ attempts' = AttemptsAfterCallback(last')
    /\ UNCHANGED calls

NextFlow == AuthorizeFlow \/ CallbackFlow

\* Authorization attempts and their callbacks, one call at a time.
SpecFlow == Init /\ [][NextFlow]_vars

\* The issued states that name the pair the state s names.
SamePairStates(s) ==
  {x \in DOMAIN attempts :
     /\ StateOrg(PyStr(x)) = StateOrg(PyStr(s))
     /\ StateUser(PyStr(x)) = StateUser(PyStr(s))}

\* A callback with a code and no error parameter that carries the issued state s.
CarriesIssued(l, s) ==
  /\ l.op = "callback"
  /\ ~Truthy(l.error) /\ Truthy(l.code)
  /\ l.state = PyStr(s)
  /\ s \in DOMAIN attempts

\* C16: an authorize leaves under the pair's state key the state it issued and the
\* state of an earlier attempt nowhere in the store (last writer wins); a Notion
\* callback carrying a state that a later authorize for the pair replaced fails
\* with the state-mismatch error and leaves the store as it was, no token written;
\* a Notion callback carrying the state the store holds is not refused for its
\* state and, when the token endpoint answers 200, succeeds and stores the token.
C16_LastWriterWins ==
  [][/\ last'.op = "authorize"
        => /\ Entry(store', StateKey(PyStr(last'.org_id), PyStr(last'.user_id)))
                = PyStr(QueryParam(last'.result, K_state))
           /\ \A s \in DOMAIN attempts' :
                attempts'[s] = "superseded" => \A k \in DOMAIN store' : store'[k] # s
     /\ \A s \in DOMAIN attempts :
          (provider = "notion" /\ CarriesIssued(last', s))
          => /\ attempts[s] = "superseded"
                => /\ FailsWith(last'.outcome, {StateDoesNotMatch})
                   /\ last'.requests = <<>>
                   /\ store' = store
             /\ attempts[s] = "pending"
                => /\ last'.requests = <<TokenRequest(last'.code.s)>>
                   /\ (last'.response.kind = "response" /\ last'.response.status = 200)
                      => /\ last'.outcome = Returned
                         /\ Entry(store', TokensKey(StateOrg(last'.state),
                                                    StateUser(last'.state)))
                              = PyStr(DumpedTokens[last'.response.json])]_vars

\* Two attempts for one pair ran authorize, then the callback of the earlier one was
\* refused and the callback of the later one succeeded.
C16_Witness ==
  /\ provider = "notion"
  /\ last.op = "callback" /\ last.outcome = HTTPException(400, StateDoesNotMatch)
  /\ last.state.t = "str" /\ last.state.s \in DOMAIN attempts
  /\ attempts[last.state.s] = "superseded"
  /\ \E s \in SamePairStates(last.state.s) : attempts[s] = "consumed"
  /\ TokensKey(StateOrg(last.state), StateUser(last.state)) \in DOMAIN store

\* C17: with the callbacks handled one after another, a Notion callback carrying a
\* state that an earlier callback succeeded with fails with the state-mismatch
\* error, sends no request and leaves the store, the token record in it, as it was.
C17_StateIsSingleUse ==
  [][\A s \in DOMAIN attempts :
       (provider = "notion" /\ CarriesIssued(last', s) /\ attempts[s] = "consumed")
       => /\ FailsWith(last'.outcome, {StateDoesNotMatch})
          /\ last'.requests = <<>>
          /\ store' = store]_vars

\* A callback was refused that carried the state an earlier callback had stored the
\* pair's token with, no authorize for the pair having run since.
C17_Witness ==
  /\ provider = "notion"
  /\ last.op = "callback" /\ last.outcome = HTTPException(400, StateDoesNotMatch)
  /\ last.state.t = "str" /\ last.state.s \in DOMAIN attempts
  /\ attempts[last.state.s] = "consumed"
  /\ \A s \in SamePairStates(last.state.s) : attempts[s] # "pending"
  /\ StateKey(StateOrg(last.state), StateUser(last.state)) \notin DOMAIN store
  /\ TokensKey(StateOrg(last.state), StateUser(last.state)) \in DOMAIN store

(* ---------------------- callbacks side by side ------------------------ *)

\* A coroutine of oauth2callback_notion: where it is (suspended in client.post at
\* "exchange", or "done"), the code and state of its request, how it ended, and
\* what it did to the store: whether it wrote the token record, and the value the
\* state key held when it deleted it (None when it deleted nothing).
Coroutine(pc, code, encoded_state, outcome, wrote, removed) ==
  [pc |-> pc, code |-> code, state |-> encoded_state, outcome |-> outcome,
   wrote |-> wrote, removed |-> removed]

\* The state key and the token key oauth2callback_notion builds from a state.
CallStateKey(encoded_state) ==
  NamespacedKey(NotionStatePrefix, PyGet(DecodedState[encoded_state.s], K_org_id, PyNone),
                PyGet(DecodedState[encoded_state.s], K_user_id, PyNone))
CallTokensKey(encoded_state) ==
  NamespacedKey(NotionTokensPrefix, PyGet(DecodedState[encoded_state.s], K_org_id, PyNone),
                PyGet(DecodedState[encoded_state.s], K_user_id, PyNone))

\* authorize_notion for the pair; nothing suspends it (the store is in memory).
AuthorizeBetween ==
  \E token \in Nonces :
    /\ EncodedState[<<FlowPair, token>>] \notin DOMAIN attempts
    /\ authorize_notion(FlowPair[2], FlowPair[1], token)
    /\ attempts' = AttemptsAfterAuthorize(StateKey(PyStr(FlowPair[1]), PyStr(FlowPair[2])),
                                          EncodedState[<<FlowPair, token>>])
    /\ UNCHANGED calls

\* oauth2callback_notion from its start to client.post, for the redirect of an
\* attempt: the state check, then the request is sent and the coroutine waits for
\* the answer.
CallBegin(t) ==
  \E code \in {PyStr(<<99>>)}, s \in DOMAIN attempts :  \* "c"
    /\ calls[t].pc = "idle"
    /\ IF StateMismatch(get_value_redis(store, CallStateKey(PyStr(s))), PyStr(s))
       THEN /\ calls' = [calls EXCEPT ![t] =
                           Coroutine("done", code, PyStr(s),
                                     HTTPException(400, StateDoesNotMatch), FALSE, PyNone)]
            /\ last' = CallbackRecord(PyNone, code, PyStr(s), NoResponse,
                                      HTTPException(400, StateDoesNotMatch), <<>>)
       ELSE /\ calls' = [calls EXCEPT ![t] =
                           Coroutine("exchange", code, PyStr(s), Returned, FALSE, PyNone)]
            /\ UNCHANGED last
    /\ UNCHANGED <<provider, store, asked_ttl, now, attempts>>

\* The end of a coroutine that stores nothing.
CallFails(t, response, outcome) ==
  /\ calls' = [calls EXCEPT ![t] =
                 Coroutine("done", calls[t].code, calls[t].state, outcome, FALSE, PyNone)]
  /\ last' = CallbackRecord(PyNone, calls[t].code, calls[t].state, response, outcome,
                            <<TokenRequest(calls[t].code.s)>>)
  /\ UNCHANGED <<provider, store, asked_ttl, now, attempts>>

\* oauth2callback_notion from the answer of client.post to its end: the status
\* check, the token write and the delete of the state key.
CallResume(t) ==
  \E response \in TokenResponses :
    /\ calls[t].pc = "exchange"
    /\ IF response.kind = "raise"
       THEN CallFails(t, response, Unhandled("httpx.HTTPError"))
       ELSE IF response.status # 200
       THEN CallFails(t, response, HTTPException(400, FailedToExchange))
       ELSE
         /\ store' = delete_key_redis(
                       add_key_value_redis(store, CallTokensKey(calls[t].state),
                                           DumpedTokens[response.json], NoExpire),
                       CallStateKey(calls[t].state))
         /\ asked_ttl' = DictDel(asked_ttl, CallStateKey(calls[t].state))
         /\ calls' = [calls EXCEPT ![t] =
                        Coroutine("done", calls[t].code, calls[t].state, Returned, TRUE,
                                  get_value_redis(store, CallStateKey(calls[t].state)))]
         /\ last' = CallbackRecord(PyNone, calls[t].code, calls[t].state, response,
                                   Returned, <<TokenRequest(calls[t].code.s)>>)
         /\ attempts' = [attempts EXCEPT ![calls[t].state.s] = "consumed"]
         /\ UNCHANGED <<provider, now>>

Begin == \E t \in Tasks : CallBegin(t)

Resume == \E t \in Tasks : CallResume(t)

NextInterleave == AuthorizeBetween \/ Begin \/ Resume

InitNotion == Init /\ provider = "notion"

\* The callbacks of the Notion adapter side by side: a coroutine gives way to the
\* others while it waits for the token endpoint.
SpecInterleave == InitNotion /\ [][NextInterleave]_vars

\* The coroutines that sent the token request for the state s, and those that wrote
\* a token record for it.
Exchanged(s) ==
  {t \in Tasks : /\ calls[t].pc # "idle"
                 /\ calls[t].state = PyStr(s)
                 /\ \/ calls[t].pc = "exchange"
                    \/ calls[t].outcome # HTTPException(400, StateDoesNotMatch)}
Wrote(s) == {t \in Tasks : calls[t].pc = "done" /\ calls[t].state = PyStr(s) /\ calls[t].wrote}

\* C18, first part: no issued state has more than one token request sent for it.
OneExchangePerState ==
  \A s \in DOMAIN attempts : Cardinality(Exchanged(s)) <= 1

\* C18, second part: no issued state has more than one token record written for it.
OneWritePerState ==
  \A s \in DOMAIN attempts : Cardinality(Wrote(s)) <= 1

\* C18, third part: the state entry a callback deletes is the state it checked.
DeletesCheckedState ==
  \A t \in Tasks :
    (calls[t].pc = "done" /\ calls[t].outcome = Returned /\ calls[t].removed # PyNone)
    => calls[t].removed = calls[t].state

\* C18: with the callbacks of oauth2callback_notion side by side, every issued state
\* has at most one token request sent and at most one token record written for it,
\* and the state entry a callback deletes on success is the state it checked, not
\* one a later authorize for the pair stored while the callback was suspended.
C18_InterleavedCallbacks ==
  OneExchangePerState /\ OneWritePerState /\ DeletesCheckedState

====
